---- MODULE Spec2Model ----
(***************************************************************************)
(* Model of the MedAlert backend's alert subsystem: the Mongoose Alert     *)
(* document (schema defaults, the derived status, calculateNextTrigger,    *)
(* markTriggered, snooze) and the alert controller's HTTP handlers.        *)
(*                                                                         *)
(* Instants.  A JavaScript Date holds a time value t in milliseconds.  An  *)
(* instant is modelled as the pair [day |-> Day(t), ms |-> TimeWithinDay(t)]*)
(* of ECMAScript's Day and TimeWithinDay, so t = day * MsPerDay + ms.  The *)
(* process runs in one wall-clock zone without daylight-saving shifts      *)
(* (LocalTime(t) = t).  The Date methods the source calls (setHours,       *)
(* getDate, setDate, getMinutes, setMinutes) are modelled by the ECMAScript*)
(* algorithms MakeTime, MakeDay, MakeDate, YearFromTime, MonthFromTime and *)
(* DateFromTime.                                                           *)
(***************************************************************************)
EXTENDS Integers, Sequences, FiniteSets, TLC

VARIABLES
    clock,      \* the instant the next `new Date()` returns
    alert,      \* the in-memory Alert document
    stored,     \* the Alert record as last persisted by save()
    pre,        \* the in-memory document as it was when the last operation began
    result,     \* outcome of the last operation
    response,   \* body of the last HTTP response of the alert controller
    streak,     \* snoozes accepted since construction or the last markTriggered
    streakStart,\* the call-time now of the first snooze of the streak
    txn,        \* two request handlers working on the stored record at once
    flight,     \* the save of the in-memory document that is in flight, and
                \* whether the process has exited on an unhandled rejection
    users,      \* the User collection, in order of insertion (_id = position)
    http        \* requests of the auth and protected routes: those in flight,
                \* the last one answered, the users holding a signed token

vars == <<clock, alert, stored, pre, result, response, streak, streakStart, txn,
          flight, users, http>>

----------------------------------------------------------------------------
(* Strings are sequences of UTF-16 code units, as String values are in the *)
(* source's language.                                                       *)

\* the printable ASCII characters, U+0020 to U+007E; the quotation mark, the
\* backslash and the grave accent by their names
Ascii ==
    <<" ", "!", "quotation mark", "#", "$", "%", "&", "'", "(", ")", "*", "+", ",", "-",
      ".", "/", "0", "1", "2", "3", "4", "5", "6", "7", "8", "9", ":", ";",
      "<", "=", ">", "?", "@", "A", "B", "C", "D", "E", "F", "G", "H", "I",
      "J", "K", "L", "M", "N", "O", "P", "Q", "R", "S", "T", "U", "V", "W",
      "X", "Y", "Z", "[", "backslash", "]", "^", "_", "grave accent", "a", "b", "c", "d", "e",
      "f", "g", "h", "i", "j", "k", "l", "m", "n", "o", "p", "q", "r", "s",
      "t", "u", "v", "w", "x", "y", "z", "{", "|", "}", "~">>

\* the code unit of an ASCII character
Code(c) == 31 + CHOOSE i \in 1..Len(Ascii) : Ascii[i] = c

\* the String written as the sequence of its (ASCII) characters
Str(chars) == [i \in 1..Len(chars) |-> Code(chars[i])]

----------------------------------------------------------------------------
(* Natural numbers of any size, for the arithmetic of Number values: a     *)
(* sequence of limbs of 15 bits, the least significant first and the most   *)
(* significant not 0; <<>> is 0.                                            *)

LimbBits == 15
Limb == 32768

\* s after Step(s, lo), Step(_, lo + 1), ..., Step(_, hi); s is a sequence
RECURSIVE Iterate(_, _, _, _)
Iterate(Step(_, _), s, lo, hi) ==
    IF lo > hi THEN s
    ELSE IF lo = hi THEN Step(s, lo)
    ELSE LET mid == (lo + hi) \div 2
             t == Iterate(Step, s, lo, mid)
         IN  IF Len(t) < 0 THEN t ELSE Iterate(Step, t, mid + 1, hi)

Min(a, b) == IF a <= b THEN a ELSE b
Max(a, b) == IF a >= b THEN a ELSE b

\* 2^k, k in 0..30
Pow2(k) ==
    <<1, 2, 4, 8, 16, 32, 64, 128, 256, 512, 1024, 2048, 4096, 8192, 16384,
      32768, 65536, 131072, 262144, 524288, 1048576, 2097152, 4194304,
      8388608, 16777216, 33554432, 67108864, 134217728, 268435456,
      536870912, 1073741824>>[k + 1]

\* a without its most significant limbs that are 0
BigNormalize(a) ==
    LET Step(s, i) == IF a[i] # 0 THEN <<i>> ELSE s
        top == Iterate(Step, <<0>>, 1, Len(a))[1]
    IN  SubSeq(a, 1, top)

\* the natural number n < 2^31
BigFromInt(n) ==
    BigNormalize(<<n % Limb, (n \div Limb) % Limb, n \div (Limb * Limb)>>)

\* a natural number below 2^30 held in at most two limbs
BigToInt(a) ==
    IF Len(a) = 0 THEN 0 ELSE IF Len(a) = 1 THEN a[1] ELSE a[1] + Limb * a[2]

\* the limbs s[2] with the carry s[1] above them
Carried(s) == IF s[1] = 0 THEN s[2] ELSE Append(s[2], s[1])

\* a * c + d, for 0 <= c, d < 2^15
BigMulAdd(a, c, d) ==
    LET Step(s, i) ==
            LET v == a[i] * c + s[1]
            IN  <<v \div Limb, Append(s[2], v % Limb)>>
    IN  BigNormalize(Carried(Iterate(Step, <<d, <<>>>>, 1, Len(a))))

\* a + b
BigAdd(a, b) ==
    LET At(x, i) == IF i <= Len(x) THEN x[i] ELSE 0
        Step(s, i) ==
            LET v == At(a, i) + At(b, i) + s[1]
            IN  <<v \div Limb, Append(s[2], v % Limb)>>
    IN  Carried(Iterate(Step, <<0, <<>>>>, 1, Max(Len(a), Len(b))))

\* a - b, for a >= b
BigSub(a, b) ==
    LET At(x, i) == IF i <= Len(x) THEN x[i] ELSE 0
        Step(s, i) ==
            LET v == a[i] - At(b, i) - s[1]
            IN  IF v < 0 THEN <<1, Append(s[2], v + Limb)>>
                ELSE <<0, Append(s[2], v)>>
    IN  BigNormalize(Iterate(Step, <<0, <<>>>>, 1, Len(a))[2])

\* -1, 0, 1 as a < b, a = b, a > b
BigCompare(a, b) ==
    IF Len(a) # Len(b) THEN (IF Len(a) < Len(b) THEN -1 ELSE 1)
    ELSE LET Step(s, i) == IF a[i] < b[i] THEN <<-1>>
                           ELSE IF a[i] > b[i] THEN <<1>>
                           ELSE s
         IN  Iterate(Step, <<0>>, 1, Len(a))[1]

\* the quotient s[2] without its leading zeros, and the remainder s[1]
QuotientAndRemainder(s) == <<BigNormalize(s[2]), s[1]>>

\* <<a \div c, a % c>>, for 0 < c <= 2^15
BigDivMod(a, c) ==
    LET Step(s, j) ==
            LET v == s[1] * Limb + a[Len(a) + 1 - j]
            IN  <<v % c, <<v \div c>> \o s[2]>>
    IN  QuotientAndRemainder(Iterate(Step, <<0, <<>>>>, 1, Len(a)))

\* the number of bits of a: 0 for 0, else k with 2^(k-1) <= a < 2^k
BitLength(a) ==
    IF Len(a) = 0 THEN 0
    ELSE LimbBits * (Len(a) - 1)
             + CHOOSE k \in 1..LimbBits :
                   Pow2(k - 1) <= a[Len(a)] /\ a[Len(a)] < Pow2(k)

\* a * 2^k
ShiftLeft(a, k) ==
    IF Len(a) = 0 THEN a
    ELSE [i \in 1..(k \div LimbBits) |-> 0]
             \o BigMulAdd(a, Pow2(k % LimbBits), 0)

\* a \div 2^k
ShiftRight(a, k) ==
    IF k \div LimbBits >= Len(a) THEN <<>>
    ELSE BigDivMod(SubSeq(a, 1 + k \div LimbBits, Len(a)),
                   Pow2(k % LimbBits))[1]

\* bit i of a, bit 0 the least significant
BitAt(a, i) ==
    IF i \div LimbBits >= Len(a) THEN 0
    ELSE (a[1 + i \div LimbBits] \div Pow2(i % LimbBits)) % 2

\* a % 2^k = 0
LowBitsZero(a, k) ==
    /\ \A i \in 1..Min(Len(a), k \div LimbBits) : a[i] = 0
    /\ k \div LimbBits < Len(a) =>
           a[1 + k \div LimbBits] % Pow2(k % LimbBits) = 0

\* the 0 bits below the least significant 1 bit of a, which is in limb low
TrailingZerosFrom(a, low) ==
    LimbBits * (low - 1)
        + CHOOSE k \in 0..(LimbBits - 1) : a[low] % Pow2(k + 1) = Pow2(k)

\* the number of 0 bits below the least significant 1 bit of a, a > 0
TrailingZeros(a) ==
    LET Step(s, j) == IF a[Len(a) + 1 - j] # 0 THEN <<Len(a) + 1 - j>> ELSE s
    IN  TrailingZerosFrom(a, Iterate(Step, <<0>>, 1, Len(a))[1])

----------------------------------------------------------------------------
(* Number values: IEEE 754 binary64.                                        *)

\* A Number: NaN, an infinity, or the finite value sign * sig * 2^exp, with
\* sig a natural number (as limbs) that is odd, or 0 with exp = 0.  -0 has
\* sign -1.
NaN == [kind |-> "NaN"]
Infinity(sign) == [kind |-> "Infinity", sign |-> sign]
IsFinite(x) == x.kind = "finite"
Zero(sign) == [kind |-> "finite", sign |-> sign, sig |-> <<>>, exp |-> 0]

\* sign * m * 2^e for m > 0 with z trailing 0 bits
FiniteOdd(sign, m, e, z) ==
    [kind |-> "finite", sign |-> sign, sig |-> ShiftRight(m, z), exp |-> e + z]

\* the finite Number sign * m * 2^e, which a Number can hold exactly
Finite(sign, m, e) ==
    IF Len(m) = 0 THEN Zero(sign) ELSE FiniteOdd(sign, m, e, TrailingZeros(m))

SignificandBits == 53
MinExponent == -1074
MaxExponent == 1023

\* sign * m * 2^e, or the infinity when that is 2^1024 or more
FiniteOrInfinity(sign, m, e) ==
    IF e + BitLength(m) - 1 > MaxExponent THEN Infinity(sign)
    ELSE Finite(sign, m, e)

\* kept = m \div 2^drop, and one more when what is dropped is above a half,
\* or is a half and kept is odd
RoundedToEven(m, sticky, drop, kept) ==
    IF /\ BitAt(m, drop - 1) = 1
       /\ \/ sticky
          \/ ~LowBitsZero(m, drop - 1)
          \/ BitAt(kept, 0) = 1
    THEN BigAdd(kept, <<1>>)
    ELSE kept

\* RoundToNumber, dropping the low drop bits of m when drop > 0
RoundDropping(sign, m, e, sticky, drop) ==
    FiniteOrInfinity(sign,
                     IF drop <= 0 THEN m
                     ELSE RoundedToEven(m, sticky, drop, ShiftRight(m, drop)),
                     e + Max(drop, 0))

\* The Number nearest to sign * (m + f) * 2^e, ties to even, where m > 0 and
\* 0 <= f < 1 with f > 0 exactly when sticky: the significand is cut to 53 bits
\* and to multiples of 2^-1074, and a value of 2^1024 or more is an infinity.
RoundToNumber(sign, m, e, sticky) ==
    RoundDropping(sign, m, e, sticky,
                  Max(e + BitLength(m) - SignificandBits, MinExponent) - e)

\* the integer part of a finite Number, truncated towards zero, as
\* [sign, mag]: ToIntegerOrInfinity
ToIntegerOrInfinity(x) ==
    [sign |-> x.sign,
     mag |-> IF x.exp >= 0 THEN ShiftLeft(x.sig, x.exp)
             ELSE ShiftRight(x.sig, -x.exp)]

\* an integer of magnitude below 2^30 as an integer of the model
IntegerValue(n) == n.sign * BigToInt(n.mag)

\* ToIntegerOrInfinity(n) * c rounded to a Number, c = c1 * c2 with
\* 0 < c1, c2 < 2^15
Times(n, c1, c2) ==
    IF ~IsFinite(n) THEN n
    ELSE IF Len(n.sig) = 0 THEN n
    ELSE RoundToNumber(n.sign,
                       BigMulAdd(BigMulAdd(ToIntegerOrInfinity(n).mag, c1, 0),
                                 c2, 0),
                       0, FALSE)

\* sx * a + sy * b rounded to a Number, c being BigCompare(a, b)
SumOfMagnitudes(sx, sy, a, b, c) ==
    IF sx = sy /\ Len(a) + Len(b) = 0 THEN Zero(sx)
    ELSE IF sx # sy /\ c = 0 THEN Zero(1)
    ELSE RoundToNumber(IF sx = sy \/ c > 0 THEN sx ELSE sy,
                       IF sx = sy THEN BigAdd(a, b)
                       ELSE BigSub(IF c > 0 THEN a ELSE b,
                                   IF c > 0 THEN b ELSE a),
                       0, FALSE)

\* sx * mags[1] + sy * mags[2] rounded to a Number
SumOfIntegers(sx, sy, mags) ==
    SumOfMagnitudes(sx, sy, mags[1], mags[2], BigCompare(mags[1], mags[2]))

\* x + y rounded to a Number, for integral x and y
Plus(x, y) ==
    IF x.kind = "NaN" \/ y.kind = "NaN" THEN NaN
    ELSE IF ~IsFinite(x)
    THEN (IF ~IsFinite(y) /\ y.sign # x.sign THEN NaN ELSE x)
    ELSE IF ~IsFinite(y) THEN y
    ELSE SumOfIntegers(x.sign, y.sign,
                       [i \in 1..2 |-> ToIntegerOrInfinity(<<x, y>>[i]).mag])

\* the integer n of the model, |n| < 2^31, as a Number
NumberOf(n) ==
    Finite(IF n >= 0 THEN 1 ELSE -1, BigFromInt(IF n >= 0 THEN n ELSE -n), 0)

----------------------------------------------------------------------------
(* Number(string).                                                          *)

IsDigit(c) == c \in 48..57
DigitValue(c) == c - 48

\* String.prototype.split(':')
RECURSIVE SplitColon(_)
SplitColon(s) ==
    IF \A i \in 1..Len(s) : s[i] # 58
    THEN <<s>>
    ELSE LET k == CHOOSE i \in 1..Len(s) :
                      s[i] = 58 /\ \A j \in 1..(i - 1) : s[j] # 58
         IN  <<SubSeq(s, 1, k - 1)>> \o SplitColon(SubSeq(s, k + 1, Len(s)))

\* WhiteSpace and LineTerminator: TAB, LF, VT, FF, CR, SP, NBSP, U+1680,
\* U+2000 to U+200A, LS, PS, U+202F, U+205F, U+3000, ZWNBSP (BOM)
WhiteSpace ==
    {9, 10, 11, 12, 13, 32, 160, 5760, 8232, 8233, 8239, 8287, 12288, 65279}
        \cup 8192..8202

\* String.prototype.trim; also what StringToNumber strips
Trim(s) ==
    LET inner == {i \in 1..Len(s) : s[i] \notin WhiteSpace}
    IN  IF inner = {} THEN <<>>
        ELSE SubSeq(s, CHOOSE i \in inner : \A j \in inner : i <= j,
                       CHOOSE i \in inner : \A j \in inner : i >= j)

\* the value of code unit c as a digit of the radix, or radix when it is none
RadixDigit(c, radix) ==
    LET v == IF c \in 48..57 THEN c - 48
             ELSE IF c \in 97..102 THEN c - 87
             ELSE IF c \in 65..70 THEN c - 55
             ELSE radix
    IN  Min(v, radix)

\* the mathematical value of a string of digits of the radix
RadixValue(s, radix) ==
    LET Step(a, i) == BigMulAdd(a, radix, RadixDigit(s[i], radix))
    IN  Iterate(Step, <<>>, 1, Len(s))

AllDigits(s, radix) == \A i \in 1..Len(s) : RadixDigit(s[i], radix) < radix

\* the position of the first code unit of s that is in set, or 0
FirstOf(s, set) ==
    IF \E i \in 1..Len(s) : s[i] \in set
    THEN CHOOSE i \in 1..Len(s) : s[i] \in set /\ \A j \in 1..(i - 1) : s[j] \notin set
    ELSE 0

\* a sign character in front of s, as (sign, rest)
Signed(s) ==
    IF Len(s) > 0 /\ s[1] = 45 THEN <<-1, SubSeq(s, 2, Len(s))>>
    ELSE IF Len(s) > 0 /\ s[1] = 43 THEN <<1, SubSeq(s, 2, Len(s))>>
    ELSE <<1, s>>

\* 2^30.  An exponent at or beyond it gives 0 or an infinity whatever the
\* mantissa: the mantissa would need 2^30 - 309 digits to make up for it, and
\* a string of the engine has fewer than 2^30 code units
ExponentCap == 1073741824

\* the value of the digits of an ExponentPart, or ExponentCap when it is more
ExponentValue(s) ==
    LET Step(a, i) == <<Min(ExponentCap, 10 * Min(a[1], ExponentCap \div 10)
                                             + DigitValue(s[i]))>>
    IN  Iterate(Step, <<0>>, 1, Len(s))[1]

\* a literal whose value is sign * n / 10^k, for natural numbers n and k
Ratio(sign, n, k) == [kind |-> "ratio", sign |-> sign, n |-> n, k |-> k]

\* sign * (q[1] + f) / 2^scale as a Number, f > 0 exactly when q[2]
QuotientRounded(sign, q, scale) ==
    IF Len(q[1]) = 0 THEN Zero(sign)
    ELSE RoundToNumber(sign, q[1], -scale, q[2])

\* n * 2^scale divided by 10^k, what the division drops remembered as sticky
QuotientScaled(sign, n, k, scale) ==
    LET Divided(s, d) == <<d[1], s[2] \/ d[2] # 0>>
        Step(s, j) ==
            Divided(s, BigDivMod(s[1], IF j <= k \div 4 THEN 10000 ELSE 10))
    IN  QuotientRounded(sign,
                        Iterate(Step, <<ShiftLeft(n, scale), FALSE>>, 1,
                                (k \div 4) + (k % 4)),
                        scale)

\* the Number nearest to sign * n / 10^k, k >= 0: n is scaled by a power of
\* two that leaves the quotient more bits than a Number keeps
Quotient(sign, n, k) ==
    QuotientScaled(sign, n, k, Min(1080, Max(0, 60 + 4 * k - BitLength(n))))

\* sign * n * 10^shift as a literal's value
Shifted(sign, n, shift) ==
    LET TimesTen(a, i) == BigMulAdd(a, 10, 0)
    IN  Ratio(sign, IF shift > 0 THEN Iterate(TimesTen, n, 1, shift) ELSE n,
              Max(0, -shift))

\* sign * 0.d1...dn * 10^(point - zeros) for the digits d1...dn of all after
\* its zeros leading zeros, which is sign * all * 10^(point - Len(all))
Significant(sign, all, point, zeros) ==
    IF zeros = Len(all) THEN Zero(sign)
    ELSE IF point - zeros > 309 THEN Infinity(sign)
    ELSE IF point - zeros < -323 THEN Zero(sign)
    ELSE Shifted(sign, RadixValue(SubSeq(all, zeros + 1, Len(all)), 10),
                 point - Len(all))

\* the digits before and after the decimal point, and the exponent
DecimalDigits(sign, whole, frac, exp, expGiven) ==
    IF Len(whole) + Len(frac) = 0 \/ ~AllDigits(whole \o frac, 10) \/ ~expGiven
    THEN NaN
    ELSE Significant(sign, whole \o frac, Len(whole) + exp,
                     Cardinality({i \in 1..(Len(whole) + Len(frac)) :
                         \A j \in 1..i : (whole \o frac)[j] = 48}))

\* the mantissa, with its decimal point at dot or with none (0)
Mantissa(sign, mantissa, dot, exp, expGiven) ==
    DecimalDigits(sign,
                  IF dot = 0 THEN mantissa ELSE SubSeq(mantissa, 1, dot - 1),
                  IF dot = 0 THEN <<>>
                  ELSE SubSeq(mantissa, dot + 1, Len(mantissa)),
                  exp, expGiven)

\* the mantissa and the ExponentPart as (sign, digits)
WithExponent(sign, mantissa, expPart) ==
    Mantissa(sign, mantissa, FirstOf(mantissa, {46}),
             expPart[1] * ExponentValue(expPart[2]),
             Len(expPart[2]) > 0 /\ AllDigits(expPart[2], 10))

\* s with its `e` or `E` at e, or with none (0): no ExponentPart is e0
ExponentAt(sign, s, e) ==
    WithExponent(sign, IF e = 0 THEN s ELSE SubSeq(s, 1, e - 1),
                 IF e = 0 THEN <<1, <<48>>>>
                 ELSE Signed(SubSeq(s, e + 1, Len(s))))

\* StrUnsignedDecimalLiteral with the given sign: digits, an optional
\* fraction, an optional exponent
DecimalLiteral(sign, s) == ExponentAt(sign, s, FirstOf(s, {101, 69}))

\* the radix a literal's prefix 0x, 0o, 0b (in either case) gives, else 10
Radix(str) ==
    LET prefix == IF Len(str) >= 2 THEN SubSeq(str, 1, 2) ELSE <<>>
    IN  IF prefix \in {<<48, 120>>, <<48, 88>>} THEN 16
        ELSE IF prefix \in {<<48, 111>>, <<48, 79>>} THEN 8
        ELSE IF prefix \in {<<48, 98>>, <<48, 66>>} THEN 2
        ELSE 10

\* NonDecimalIntegerLiteral: the digits after the prefix, and no sign
NonDecimalLiteral(digits, radix) ==
    IF Len(digits) > 0 /\ AllDigits(digits, radix)
    THEN Ratio(1, RadixValue(digits, radix), 0)
    ELSE NaN

\* StrDecimalLiteral: Infinity or a decimal literal, behind its sign
SignedLiteral(signed) ==
    IF signed[2] = <<73, 110, 102, 105, 110, 105, 116, 121>>
    THEN Infinity(signed[1])
    ELSE DecimalLiteral(signed[1], signed[2])

\* the Number a literal's value rounds to
NumberOfLiteral(v) ==
    IF v.kind = "ratio" THEN Quotient(v.sign, v.n, v.k) ELSE v

\* StringNumericLiteral without the white space around it
StringNumericLiteral(str) ==
    IF Len(str) = 0 THEN Zero(1)
    ELSE NumberOfLiteral(
             IF Radix(str) # 10
             THEN NonDecimalLiteral(SubSeq(str, 3, Len(str)), Radix(str))
             ELSE SignedLiteral(Signed(str)))

\* Number(string), StringToNumber: white space is stripped; "" is 0; a binary,
\* octal or hexadecimal literal has no sign; anything that is no
\* StringNumericLiteral is NaN
ToNumber(s) == StringNumericLiteral(Trim(s))

\* [hours, minutes] of the parts' Numbers: minutes is undefined when the
\* string has no colon, and setHours takes undefined as NaN
HoursAndMinutes(numbers) == [hours |-> numbers[1], minutes |-> numbers[2]]

\* const [hours, minutes] = this.time.split(':').map(Number)
ParseTime(time) ==
    LET Numbers(parts) ==
            [i \in 1..2 |-> IF i <= Len(parts) THEN ToNumber(parts[i]) ELSE NaN]
    IN  HoursAndMinutes(Numbers(SplitColon(time)))

\* /^([0-1]?[0-9]|2[0-3]):[0-5][0-9]$/
TimeMatches(s) ==
    LET InRange(c, lo, hi) == IsDigit(c) /\ DigitValue(c) >= lo /\ DigitValue(c) <= hi
        Rest(k) == /\ Len(s) = k + 2
                   /\ s[k] = 58
                   /\ InRange(s[k + 1], 0, 5)
                   /\ InRange(s[k + 2], 0, 9)
    IN  \/ /\ Len(s) = 4
           /\ InRange(s[1], 0, 9)
           /\ Rest(2)
        \/ /\ Len(s) = 5
           /\ \/ InRange(s[1], 0, 1) /\ InRange(s[2], 0, 9)
              \/ s[1] = 50 /\ InRange(s[2], 0, 3)
           /\ Rest(3)

----------------------------------------------------------------------------
(* ECMAScript time arithmetic used by the Date methods of the source.      *)

HoursPerDay == 24
MinutesPerHour == 60
SecondsPerMinute == 60
MsPerSecond == 1000
MsPerMinute == MsPerSecond * SecondsPerMinute
MsPerHour == MsPerMinute * MinutesPerHour
MsPerDay == MsPerHour * HoursPerDay

\* null of a Date-typed schema field
Null == [day |-> -1, ms |-> -1]

Instant(d, m) == [day |-> d, ms |-> m]

\* a < b, a <= b on time values
Before(a, b) == a.day < b.day \/ (a.day = b.day /\ a.ms < b.ms)
AtOrBefore(a, b) == a = b \/ Before(a, b)

HourFromTime(t) == t.ms \div MsPerHour
MinFromTime(t) == (t.ms \div MsPerMinute) % MinutesPerHour
SecFromTime(t) == (t.ms \div MsPerSecond) % SecondsPerMinute
MsFromTime(t) == t.ms % MsPerSecond

MakeTime(hour, min, sec, ms) ==
    hour * MsPerHour + min * MsPerMinute + sec * MsPerSecond + ms

\* MakeDate(day, time) = day * MsPerDay + time, kept as (Day, TimeWithinDay)
MakeDate(day, time) == Instant(day + (time \div MsPerDay), time % MsPerDay)

IsLeapYear(y) == (y % 4 = 0 /\ y % 100 # 0) \/ y % 400 = 0

DayFromYear(y) ==
    365 * (y - 1970) + ((y - 1969) \div 4) - ((y - 1901) \div 100)
        + ((y - 1601) \div 400)

\* the year y with DayFromYear(y) <= day < DayFromYear(y + 1)
YearFromDay(day) ==
    LET a == 1970 + (day \div 366)
        b == 1970 + (day \div 365)
    IN  CHOOSE y \in Min(a, b) .. Max(a, b) :
            DayFromYear(y) <= day /\ day < DayFromYear(y + 1)

\* number of days of year y before month m (0 = January .. 12 = end of year)
DaysBeforeMonth(y, m) ==
    LET common == <<0, 31, 59, 90, 120, 151, 181, 212, 243, 273, 304, 334, 365>>
    IN  common[m + 1] + (IF m >= 2 /\ IsLeapYear(y) THEN 1 ELSE 0)

YearFromTime(t) == YearFromDay(t.day)
DayWithinYear(t) == t.day - DayFromYear(YearFromTime(t))

MonthFromTime(t) ==
    LET y == YearFromTime(t)
        d == DayWithinYear(t)
    IN  CHOOSE m \in 0..11 :
            DaysBeforeMonth(y, m) <= d /\ d < DaysBeforeMonth(y, m + 1)

\* Date.prototype.getDate
DateFromTime(t) ==
    DayWithinYear(t) - DaysBeforeMonth(YearFromTime(t), MonthFromTime(t)) + 1

\* MakeDay(year, month, date): month and date may lie outside their ranges
MakeDay(year, month, date) ==
    LET ym == year + (month \div 12)
        mn == month % 12
    IN  DayFromYear(ym) + DaysBeforeMonth(ym, mn) + date - 1

\* MakeTime(hour, min, sec, ms) on Numbers: NaN when an argument is not
\* finite, else ((h * msPerHour + m * msPerMinute) + s * msPerSecond) + milli
\* on the integer parts, every product and sum rounded as a Number is; the
\* sum starts from +0, which adds nothing
MakeTimeNumber(hour, min, sec, ms) ==
    LET args == <<hour, min, sec, ms>>
        factors == <<<<3600, 1000>>, <<60, 1000>>, <<1000, 1>>, <<1, 1>>>>
        Step(s, i) ==
            <<Plus(s[1], Times(args[i], factors[i][1], factors[i][2]))>>
    IN  IF ~(IsFinite(hour) /\ IsFinite(min) /\ IsFinite(sec) /\ IsFinite(ms))
        THEN NaN
        ELSE Iterate(Step, <<Zero(1)>>, 1, 4)[1]

\* MakeDate(day, time) on Numbers: day * msPerDay + time
MakeDateNumber(day, time) ==
    IF ~(IsFinite(day) /\ IsFinite(time)) THEN NaN
    ELSE Plus(Times(day, 8640, 10000), time)

\* a Date whose time value is NaN
InvalidDate == [day |-> -2, ms |-> -2]

\* 8.64e15, the largest magnitude of a time value
MaxTimeValue == BigMulAdd(BigMulAdd(BigFromInt(864000000), 10000, 0), 1000, 0)

\* the instant sign * t ms from the epoch, for t = r[1] days, r[5] hours,
\* r[4] minutes, r[3] seconds and r[2] ms
InstantOf(sign, r) ==
    LET days == BigToInt(r[1])
        within == r[5] * MsPerHour + r[4] * MsPerMinute + r[3] * MsPerSecond
                      + r[2]
    IN  IF sign > 0 \/ within = 0 THEN Instant(sign * days, within)
        ELSE Instant(-days - 1, MsPerDay - within)

\* TimeClip of an integer [sign, mag]
TimeClipInteger(t) ==
    LET units == <<MsPerSecond, SecondsPerMinute, MinutesPerHour, HoursPerDay>>
        Split(s, d) == <<d[1]>> \o Tail(s) \o <<d[2]>>
        Step(s, i) == Split(s, BigDivMod(s[1], units[i]))
    IN  IF BigCompare(t.mag, MaxTimeValue) > 0 THEN InvalidDate
        ELSE InstantOf(t.sign, Iterate(Step, <<t.mag>>, 1, 4))

\* TimeClip, and the instant of the time value it leaves: NaN when the value
\* is not finite or beyond 8.64e15 in magnitude
TimeClip(time) ==
    IF ~IsFinite(time) THEN InvalidDate
    ELSE TimeClipInteger(ToIntegerOrInfinity(time))

\* 8.64e15 / msPerDay
MaxTimeDay == 100000000

\* TimeClip of an instant
TimeClipInstant(t) ==
    IF \/ t.day > MaxTimeDay
       \/ t.day = MaxTimeDay /\ t.ms > 0
       \/ t.day < -MaxTimeDay
    THEN InvalidDate
    ELSE t

\* the hours and minutes up to which MakeTime's sums stay below 2^31, where
\* the integers of the model hold them as exactly as Numbers do
ExactHours == 100
ExactMinutes == 20000

\* setHours with h and m the integer parts of hour and min
SetHoursTruncated(t, hour, min, sec, ms, h, m) ==
    IF /\ Len(h.mag) <= 1
       /\ Len(m.mag) <= 1
       /\ IntegerValue(h) \in -ExactHours..ExactHours
       /\ IntegerValue(m) \in -ExactMinutes..ExactMinutes
    THEN TimeClipInstant(
             MakeDate(t.day, MakeTime(IntegerValue(h), IntegerValue(m), sec, ms)))
    ELSE TimeClip(MakeDateNumber(NumberOf(t.day),
                      MakeTimeNumber(hour, min, NumberOf(sec), NumberOf(ms))))

\* Date.prototype.setHours(hour, min, sec, ms) with Numbers for hour and min
\* and integers for sec and ms
SetHours(t, hour, min, sec, ms) ==
    IF t = InvalidDate THEN InvalidDate
    ELSE IF ~(IsFinite(hour) /\ IsFinite(min)) THEN InvalidDate
    ELSE SetHoursTruncated(t, hour, min, sec, ms,
                           ToIntegerOrInfinity(hour), ToIntegerOrInfinity(min))

\* Date.prototype.setDate(date)
SetDate(t, date) ==
    TimeClipInstant(
        MakeDate(MakeDay(YearFromTime(t), MonthFromTime(t), date), t.ms))

MinutesPerDay == MinutesPerHour * HoursPerDay

\* Date.prototype.setMinutes(min) for an integer min: an Invalid Date stays
\* one; else TimeClip(MakeDate(Day(t), MakeTime(hour, min, sec, ms))), with
\* the whole days of min carried into the day so that the sums stay exact
SetMinutes(t, min) ==
    IF t = InvalidDate THEN InvalidDate
    ELSE TimeClipInstant(
             MakeDate(t.day + (min \div MinutesPerDay),
                      MakeTime(HourFromTime(t), min % MinutesPerDay,
                               SecFromTime(t), MsFromTime(t))))

----------------------------------------------------------------------------
(* The Alert document (alertSchema).                                        *)

Frequencies == {"daily", "weekly", "monthly", "custom"}
Weekdays == {"monday", "tuesday", "wednesday", "thursday", "friday",
             "saturday", "sunday"}
DefaultSnoozeTime == 15
DefaultMaxSnoozes == 3
MinSnoozeTime == 1
MaxSnoozeTime == 60
MinMaxSnoozes == 0
MaxMaxSnoozes == 10

\* the schema's validators, run by save()
ValidAlert(a) ==
    /\ TimeMatches(a.time)
    /\ a.frequency \in Frequencies
    /\ a.daysOfWeek \subseteq Weekdays
    /\ a.snoozeTime >= MinSnoozeTime /\ a.snoozeTime <= MaxSnoozeTime
    /\ a.maxSnoozes >= MinMaxSnoozes /\ a.maxSnoozes <= MaxMaxSnoozes

\* mutant: currentSnoozes defaults to 1
NewAlert_CountsFromOne(time, frequency, daysOfWeek, isActive, snoozeTime, maxSnoozes) ==
    [time |-> time,
     frequency |-> frequency,
     daysOfWeek |-> daysOfWeek,
     isActive |-> isActive,
     lastTriggered |-> Null,
     nextTrigger |-> Null,
     snoozeTime |-> snoozeTime,
     maxSnoozes |-> maxSnoozes,
     currentSnoozes |-> 1]

\* new Alert({time, frequency, daysOfWeek, isActive, snoozeTime, maxSnoozes}):
\* the other fields take the schema defaults
NewAlert(time, frequency, daysOfWeek, isActive, snoozeTime, maxSnoozes) ==
    [time |-> time,
     frequency |-> frequency,
     daysOfWeek |-> daysOfWeek,
     isActive |-> isActive,
     lastTriggered |-> Null,
     nextTrigger |-> Null,
     snoozeTime |-> snoozeTime,
     maxSnoozes |-> maxSnoozes,
     currentSnoozes |-> 0]

\* mutant: `>` in place of `>=`
Status_StrictOverdue(a) ==
    IF ~a.isActive THEN "inactive"
    ELSE IF a.currentSnoozes > a.maxSnoozes THEN "overdue"
    ELSE "active"

\* alertSchema.virtual('status')
Status(a) ==
    IF ~a.isActive THEN "inactive"
    ELSE IF a.currentSnoozes >= a.maxSnoozes THEN "overdue"
    ELSE "active"

\* the time strings of the documents and requests of the model
T0000 == Str(<<"0", "0", ":", "0", "0">>)
T0800 == Str(<<"0", "8", ":", "0", "0">>)
T800 == Str(<<"8", ":", "0", "0">>)
T0900 == Str(<<"0", "9", ":", "0", "0">>)
T2359 == Str(<<"2", "3", ":", "5", "9">>)
T2400 == Str(<<"2", "4", ":", "0", "0">>)
ModelTimes == {T0000, T0800, T800, T0900, T2359, T2400}

\* ParseTime, worked out once for each time string of the model
ParsedTimes == [time \in ModelTimes |-> ParseTime(time)]
TimeParts(time) ==
    IF time \in ModelTimes THEN ParsedTimes[time] ELSE ParseTime(time)

\* nextTrigger.setHours(hours, minutes, sec, ms) on the Date read at now2, with
\* the hours and minutes of the alert's time: MakeTime truncates them, and
\* gives NaN when one of them is not finite
SetHoursOfParts(t, now2, sec, ms) == SetHours(now2, t.hours, t.minutes, sec, ms)
SetHoursOfTime(a, now2, sec, ms) ==
    SetHoursOfParts(TimeParts(a.time), now2, sec, ms)

\* `if (nextTrigger <= now) nextTrigger.setDate(nextTrigger.getDate() + 1)`,
\* with the comparison as Passed; an Invalid Date compares false with now and
\* stays as it is
TomorrowIfPassed(nextTrigger, now, Passed(_, _)) ==
    IF nextTrigger # InvalidDate /\ Passed(nextTrigger, now)
    THEN SetDate(nextTrigger, DateFromTime(nextTrigger) + 1)
    ELSE nextTrigger

\* mutant: `nextTrigger < now` in place of `nextTrigger <= now`
NextTriggerValue_StrictCompare(a, now, now2) ==
    TomorrowIfPassed(SetHoursOfTime(a, now2, 0, 0), now, Before)

\* calculateNextTrigger: now is the first `new Date()`, now2 the second
NextTriggerValue(a, now, now2) ==
    TomorrowIfPassed(SetHoursOfTime(a, now2, 0, 0), now, AtOrBefore)

\* `this.nextTrigger = nextTrigger`: an Invalid Date fails the cast to the
\* path's type and the path keeps its value
AssignNextTrigger(a, nextTrigger) ==
    IF nextTrigger = InvalidDate THEN a
    ELSE [a EXCEPT !.nextTrigger = nextTrigger]

CalculateNextTriggerDoc(a, now, now2) ==
    AssignNextTrigger(a, NextTriggerValue(a, now, now2))

\* mutant: markTriggered without `this.currentSnoozes = 0`
MarkTriggeredDoc_NoReset(a, t0, now, now2) ==
    CalculateNextTriggerDoc([a EXCEPT !.lastTriggered = t0], now, now2)

\* markTriggered: t0 is its own `new Date()`, then calculateNextTrigger's two
MarkTriggeredDoc(a, t0, now, now2) ==
    CalculateNextTriggerDoc(
        [a EXCEPT !.lastTriggered = t0, !.currentSnoozes = 0], now, now2)

\* mutant: the limit is compared with the default, not with this alert's
SnoozeLimitReached_DefaultLimit(a) == a.currentSnoozes >= DefaultMaxSnoozes

\* snooze throws when this holds
SnoozeLimitReached(a) == a.currentSnoozes >= a.maxSnoozes

\* mutant: the snooze is added to the pending nextTrigger when there is one
SnoozeDoc_FromPendingTrigger(a, now) ==
    LET from == IF a.nextTrigger = Null THEN now ELSE a.nextTrigger
    IN  AssignNextTrigger(
            [a EXCEPT !.currentSnoozes = @ + 1],
            SetMinutes(from, MinFromTime(from) + a.snoozeTime))

\* snooze, past its guard, for an integer this.snoozeTime: the count, then
\* `this.nextTrigger = snoozeTime` for the Date that setMinutes left
SnoozeDoc(a, now) ==
    AssignNextTrigger(
        [a EXCEPT !.currentSnoozes = @ + 1],
        SetMinutes(now, MinFromTime(now) + a.snoozeTime))

----------------------------------------------------------------------------
(* Bounds and input sets.                                                   *)

\* days the clock may run past the day it starts on: in the alert's life, and
\* in the runs of the next-trigger computation alone
MaxDays == 0
MaxCalcDays == 1

T(h, m, sec, ms) == MakeTime(h, m, sec, ms)

\* the day before a year boundary, before a leap day, before a common 1 March
CalcStartDays == {MakeDay(2023, 11, 31), MakeDay(2024, 1, 28), MakeDay(2023, 1, 28)}
LifeStartDays == {MakeDay(2023, 11, 31)}

CalcMs == {T(0, 0, 0, 0), T(7, 59, 59, 999), T(8, 0, 0, 0), T(8, 0, 0, 1),
           T(23, 59, 0, 0), T(23, 59, 59, 999)}
LifeMs == {T(7, 59, 59, 999), T(8, 0, 0, 0), T(23, 50, 30, 250)}

InstantsFrom(startDays, maxDays, msOfDay) ==
    {Instant(d0 + k, m) : d0 \in startDays, k \in 0..maxDays, m \in msOfDay}

CalcInstants == InstantsFrom(CalcStartDays, MaxCalcDays, CalcMs)

\* the instants of S within maxDays days of p's day: a run stays near the
\* day it starts on
Near(S, maxDays, p) == {t \in S : t.day - p.day \in -maxDays..maxDays}
LifeInstants == InstantsFrom(LifeStartDays, MaxDays, LifeMs)


CalcTimes == {T0000, T0800, T2359}
LifeTimes == {T0800}
\* frequency and daysOfWeek of a schedule
AllSchedules == {<<"daily", {}>>, <<"weekly", {}>>, <<"monthly", {}>>,
                 <<"custom", {"monday", "thursday"}>>, <<"custom", {}>>}
LifeSchedules == {<<"daily", {}>>}
LifeSnoozeTimes == {DefaultSnoozeTime}
MaxSnoozesRange == MinMaxSnoozes..MaxMaxSnoozes
LiveMaxSnoozes == {MinMaxSnoozes, 1, DefaultMaxSnoozes}

\* what a later `new Date()` of the same call may return after a read of p:
\* nothing bounds the time that passes between two reads
ReadsAfter(S, p) == {t \in S : AtOrBefore(p, t)}

----------------------------------------------------------------------------
(* Operations.                                                              *)

\* a request body with every field absent (<<>> and "" are absent fields)
NoBody ==
    [time |-> <<>>, frequency |-> "", message |-> "", isActive |-> <<>>,
     maxSnoozes |-> <<>>, medicationId |-> "", daysOfWeek |-> <<>>]

\* What the last step was and how it ended: the operation, whether it returned
\* normally, the error otherwise, the instant of its first clock read, the
\* saves it issued, its request body (NoBody when it has none), whether the
\* step before it was an updateAlert with isActive false, the rejections of
\* promises that the operation did not hand to its caller, and whether the
\* step before it was a snoozeAlert request.
Outcome(op, ok, error, now, saves, body) ==
    [op |-> op, ok |-> ok, error |-> error, now |-> now, saves |-> saves,
     body |-> body,
     afterDeactivate |-> FALSE,
     dropped |-> <<>>,
     settles |-> "",
     repeated |-> FALSE]

NoResponse == [status |-> 0]

\* a bearer token: none sent, one that does not verify, or one signed for the
\* user with the given _id, within or past its expiry
NoToken == [kind |-> "none", id |-> 0]

\* the requests the server works on at once
Slots == {"first", "second"}

\* a request slot with no request in it.  A request records what it carries
\* (email, password, token), where its handler stands (pc), the user and the
\* document it has loaded (the document as it stands, then as it was loaded),
\* and as history whether its email was a user's (for a registration) and the
\* users that were deactivated (for the other requests) when it arrived.
IdleRequest ==
    [kind |-> "idle", pc |-> "idle", email |-> "", password |-> "",
     token |-> NoToken, user |-> 0, doc |-> <<>>, taken |-> FALSE, after |-> {}]

\* no request was made yet
NoHttp ==
    [reqs |-> [r \in Slots |-> IdleRequest],
     last |-> [req |-> IdleRequest, status |-> 0, message |-> "", error |-> "",
               handled |-> FALSE],
     issued |-> {},
     arrived |-> 0]

\* a request handler that has not loaded the alert yet
IdleHandler == [pc |-> "idle"]

\* no request is being handled
NoTxn == [fire |-> IdleHandler, snooze |-> IdleHandler]

\* no save of the in-memory document is in flight
NoFlight == [pc |-> "idle", doc |-> <<>>, op |-> ""]

\* save() was called by the method op and has not settled: the document is
\* marked as saving, the stored record is still the old one, and doc is the
\* document as the write will carry it
InFlight(op, doc) == [pc |-> "saving", doc |-> <<doc>>, op |-> op]

\* a rejection that nobody received is pending: the callers' continuations run
\* on, and the process exits before the event loop takes its next turn
Doomed == flight.pc = "doomed"

\* a save of the document is in flight
Saving == flight.pc \in {"saving", "doomed"}

\* the process has not exited
Running == flight.pc # "exited"

\* the event loop takes its next turn: a request is served, a write is answered
Serving == flight.pc \in {"idle", "saving"}

\* the process after process.exit(1)
Exited == [NoFlight EXCEPT !.pc = "exited"]

\* The save in flight after the document has changed to doc.  Mongoose takes
\* the changed paths of the document some time after save() is called (after
\* its pre-save hooks), so a change made while the save is in flight is
\* carried by the write or is not.
Carries(doc) == {flight, [flight EXCEPT !.doc = <<doc>>]}

\* the clock advances between operations, to the next instant of S
Tick(S) ==
    /\ LET later == {t \in S : Before(clock, t)}
       IN  /\ later # {}
           /\ clock' = CHOOSE t \in later : \A u \in later : AtOrBefore(t, u)
    /\ pre' = alert
    /\ result' = Outcome("tick", TRUE, "", clock, 0, NoBody)
    /\ response' = NoResponse
    /\ UNCHANGED <<alert, stored, streak, streakStart, txn, flight, users, http>>

\* alert.calculateNextTrigger() up to its return: nextTrigger is set and the
\* promise of save() is returned, the write still to come.  Called while a
\* save is in flight, the save is rejected (ParallelSaveError).
CalculateNextTrigger(S) ==
    /\ Running
    /\ \E now2 \in ReadsAfter(S, clock) :
        /\ alert' = CalculateNextTriggerDoc(alert, clock, now2)
        /\ pre' = alert
        /\ clock' = now2
        /\ IF Saving
           THEN /\ result' = Outcome("calculateNextTrigger", FALSE,
                                     "ParallelSaveError", clock, 1, NoBody)
                /\ flight' \in Carries(alert')
           ELSE /\ result' = Outcome("calculateNextTrigger", TRUE, "", clock, 1,
                                     NoBody)
                /\ flight' = InFlight("calculateNextTrigger", alert')
        /\ response' = NoResponse
        /\ UNCHANGED <<stored, streak, streakStart, txn, users, http>>

\* alert.markTriggered() up to its return.  calculateNextTrigger's save is
\* called and not awaited; markTriggered then issues its own, which Mongoose
\* rejects (ParallelSaveError), and returns that rejection with the first save
\* in flight and nothing written yet.  Called while an earlier save is in
\* flight, both of its saves are rejected, and the rejection of the first is
\* handed to nobody.
MarkTriggered(S) ==
    /\ Running
    /\ \E now \in ReadsAfter(S, clock) :
      \E now2 \in ReadsAfter(S, now) :
        /\ alert' = MarkTriggeredDoc(alert, clock, now, now2)
        /\ pre' = alert
        /\ clock' = now2
        /\ IF Saving
           THEN /\ result' =
                     [Outcome("markTriggered", FALSE, "ParallelSaveError", clock,
                              2, NoBody)
                         EXCEPT !.dropped = <<"ParallelSaveError">>]
                /\ flight' \in {[f EXCEPT !.pc = "doomed"] : f \in Carries(alert')}
           ELSE /\ result' = Outcome("markTriggered", FALSE, "ParallelSaveError",
                                     clock, 2, NoBody)
                /\ flight' = InFlight("markTriggered", alert')
        /\ streak' = 0
        /\ streakStart' = Null
        /\ response' = NoResponse
        /\ UNCHANGED <<stored, txn, users, http>>

\* the save in flight settles: its write reaches the store, and the promise
\* of the method that issued it is fulfilled
SaveLands ==
    /\ flight.pc = "saving"
    /\ stored' = flight.doc[1]
    /\ flight' = NoFlight
    /\ pre' = alert
    /\ result' = [Outcome("save", TRUE, "", clock, 0, NoBody)
                      EXCEPT !.settles = flight.op]
    /\ response' = NoResponse
    /\ UNCHANGED <<clock, alert, streak, streakStart, txn, users, http>>

\* The unhandled rejection is reported once the callers' continuations have
\* run: handleUnhandledRejection logs it and the process exits, the write in
\* flight having reached the store or not.
Exit ==
    /\ Doomed
    /\ flight' = Exited
    /\ stored' \in {stored, flight.doc[1]}
    /\ pre' = alert
    /\ result' = Outcome("exit", FALSE, "unhandledRejection", clock, 0, NoBody)
    /\ response' = NoResponse
    /\ UNCHANGED <<clock, alert, streak, streakStart, txn, users, http>>

\* mutant: the counter is incremented before the limit is tested
Snooze_CountsBeforeCheck ==
    /\ pre' = alert
    /\ alert' = [alert EXCEPT !.currentSnoozes = @ + 1]
    /\ IF alert'.currentSnoozes > alert.maxSnoozes
       THEN /\ result' = Outcome("snooze", FALSE, "Maximum snoozes reached", clock, 0, NoBody)
            /\ UNCHANGED <<streak, streakStart, flight>>
       ELSE /\ flight' = IF Saving THEN flight ELSE InFlight("snooze", alert')
            /\ streak' = streak + 1
            /\ streakStart' = IF streak = 0 THEN clock ELSE streakStart
            /\ result' = Outcome("snooze", TRUE, "", clock, 1, NoBody)
    /\ response' = NoResponse
    /\ UNCHANGED <<clock, stored, txn, users, http>>

\* alert.snooze() up to its return: past the limit test the document changes
\* and the promise of save() is returned, the write still to come.  Called
\* while a save is in flight, the save is rejected (ParallelSaveError).
Snooze ==
    /\ Running
    /\ pre' = alert
    /\ IF SnoozeLimitReached(alert)
       THEN /\ result' = Outcome("snooze", FALSE, "Maximum snoozes reached", clock, 0, NoBody)
            /\ UNCHANGED <<alert, streak, streakStart, flight>>
       ELSE IF Saving
       THEN /\ alert' = SnoozeDoc(alert, clock)
            /\ flight' \in Carries(alert')
            /\ result' = Outcome("snooze", FALSE, "ParallelSaveError", clock, 1, NoBody)
            /\ UNCHANGED <<streak, streakStart>>
       ELSE /\ alert' = SnoozeDoc(alert, clock)
            /\ flight' = InFlight("snooze", alert')
            /\ streak' = streak + 1
            /\ streakStart' = IF streak = 0 THEN clock ELSE streakStart
            /\ result' = Outcome("snooze", TRUE, "", clock, 1, NoBody)
    /\ response' = NoResponse
    /\ UNCHANGED <<clock, stored, txn, users, http>>

\* req.body of PUT /api/alerts/:id: an empty body, a deactivation, a
\* reactivation, a new schedule, a lower snooze limit
UpdateBodies ==
    {NoBody,
     [NoBody EXCEPT !.isActive = <<FALSE>>],
     [NoBody EXCEPT !.isActive = <<TRUE>>],
     [NoBody EXCEPT !.time = T2359, !.frequency = "weekly",
                    !.message = "Take with food"],
     [NoBody EXCEPT !.maxSnoozes = <<1>>]}


\* the one alert of the model, req.params.id
AlertId == "alert_1"

UpdateAlertResponse(body, now) ==
    [status |-> 200,
     success |-> TRUE,
     id |-> AlertId,
     time |-> IF body.time = <<>> THEN T0900 ELSE body.time,
     frequency |-> IF body.frequency = "" THEN "daily" ELSE body.frequency,
     message |-> IF body.message = "" THEN "Updated alert message" ELSE body.message,
     isActive |-> IF body.isActive # <<>> THEN body.isActive[1] ELSE TRUE,
     updatedAt |-> now]

\* alertController.updateAlert: answers from the request alone, touches no record
UpdateAlert ==
    \E body \in UpdateBodies :
        /\ Serving
        /\ response' = UpdateAlertResponse(body, clock)
        /\ result' = [Outcome("updateAlert", TRUE, "", clock, 0, body)
                          EXCEPT !.afterDeactivate =
                              result.op = "updateAlert"
                              /\ result.body.isActive = <<FALSE>>]
        /\ pre' = alert
        /\ UNCHANGED <<clock, alert, stored, streak, streakStart, txn, flight, users, http>>

\* req.body of POST /api/alerts: an empty body, a custom schedule with an empty
\* and with a non-empty daysOfWeek, a daily schedule without snoozes, a time
\* of day with hour 24
CreateBodies ==
    {NoBody,
     [NoBody EXCEPT !.medicationId = "med_7", !.time = T0800,
                    !.frequency = "custom", !.daysOfWeek = <<{}>>],
     [NoBody EXCEPT !.time = T800, !.frequency = "custom",
                    !.daysOfWeek = <<{"monday", "thursday"}>>],
     [NoBody EXCEPT !.time = T2359, !.frequency = "daily",
                    !.message = "Take with food", !.maxSnoozes = <<0>>],
     [NoBody EXCEPT !.medicationId = "med_7", !.time = T2400,
                    !.frequency = "daily"]}

\* the mock alert of createAlert; t1, t2, t3 are its three `new Date()`
CreateAlertResponse(body, t1, t2, t3) ==
    [status |-> 201,
     success |-> TRUE,
     message |-> "Alert created successfully",
     alert |->
        [id |-> AlertId,
         medicationId |-> IF body.medicationId = "" THEN "med_1" ELSE body.medicationId,
         time |-> IF body.time = <<>> THEN T0800 ELSE body.time,
         frequency |-> IF body.frequency = "" THEN "daily" ELSE body.frequency,
         message |-> IF body.message = "" THEN "Time to take your medication!"
                     ELSE body.message,
         isActive |-> TRUE,
         lastTriggered |-> Null,
         nextTrigger |-> t1,
         currentSnoozes |-> 0,
         maxSnoozes |-> 3,
         createdAt |-> t2,
         updatedAt |-> t3]]

\* POST /api/alerts: authenticateToken, then alertController.createAlert, which
\* answers from the request alone and stores nothing
CreateAlert(S) ==
    \E body \in CreateBodies :
      \E t2 \in ReadsAfter(S, clock) :
        \E t3 \in ReadsAfter(S, t2) :
          /\ Serving
          /\ response' = CreateAlertResponse(body, clock, t2, t3)
          /\ result' = Outcome("createAlert", TRUE, "", clock, 0, body)
          /\ clock' = t3
          /\ pre' = alert
          /\ UNCHANGED <<alert, stored, streak, streakStart, txn, flight, users, http>>

InitWith(S, times, schedules, actives, snoozeTimes, maxima) ==
    /\ clock \in S
    /\ \E time \in times, schedule \in schedules, isActive \in actives,
          snoozeTime \in snoozeTimes, maxSnoozes \in maxima :
            /\ alert = NewAlert(time, schedule[1], schedule[2], isActive,
                                snoozeTime, maxSnoozes)
            /\ ValidAlert(alert)
    /\ stored = alert
    /\ pre = alert
    /\ result = Outcome("new", TRUE, "", clock, 1, NoBody)
    /\ response = NoResponse
    /\ streak = 0
    /\ streakStart = Null
    /\ txn = NoTxn
    /\ flight = NoFlight
    /\ users = <<>>
    /\ http = NoHttp

\* The lifecycle of one alert: an active alert with no, one or the default
\* number of snoozes allowed, or an inactive one, under any sequence of
\* markTriggered() and snooze() calls.
Init ==
    \/ InitWith(LifeInstants, LifeTimes, LifeSchedules, {TRUE}, LifeSnoozeTimes,
                LiveMaxSnoozes)
    \/ InitWith(LifeInstants, LifeTimes, LifeSchedules, {FALSE}, LifeSnoozeTimes,
                {1})

Next ==
    \/ Tick(LifeInstants)
    \/ MarkTriggered(LifeInstants)
    \/ Snooze
    \/ SaveLands
    \/ Exit

Spec == Init /\ [][Next]_vars

\* The save in flight settles on a store whose writes can fail: the write
\* fails.  The rejection goes to the caller of the method that returned the
\* save's promise (snooze, calculateNextTrigger).  markTriggered discarded the
\* promise of calculateNextTrigger's save, so that rejection reaches nobody; on
\* the unhandled rejection handleUnhandledRejection logs it and the process
\* exits.
SaveFails ==
    /\ flight.pc = "saving"
    /\ flight' = IF flight.op = "markTriggered" THEN Exited ELSE NoFlight
    /\ pre' = alert
    /\ result' = [Outcome("save", FALSE, "StoreError", clock, 0, NoBody)
                      EXCEPT !.settles = flight.op,
                             !.dropped = IF flight.op = "markTriggered"
                                         THEN <<"StoreError">> ELSE <<>>]
    /\ response' = NoResponse
    /\ UNCHANGED <<clock, alert, stored, streak, streakStart, txn, users, http>>

InitFail ==
    InitWith(LifeInstants, LifeTimes, LifeSchedules, {TRUE}, LifeSnoozeTimes,
             LiveMaxSnoozes)

NextFail ==
    \/ Tick(LifeInstants)
    \/ MarkTriggered(LifeInstants)
    \/ Snooze
    \/ SaveLands
    \/ SaveFails
    \/ Exit

SpecFail == InitFail /\ [][NextFail]_vars

\* PUT /api/alerts/:id with isActive true, the reactivation request
Reactivate == UpdateAlert /\ result'.body.isActive = <<TRUE>>

\* The lifecycle with the update requests of a client that keeps sending the
\* reactivation request.
LiveMs == {T(8, 0, 0, 0), T(23, 50, 30, 250)}
LiveInstants == InstantsFrom(LifeStartDays, MaxDays, LiveMs)

InitLive ==
    \/ InitWith(LiveInstants, LifeTimes, LifeSchedules, {TRUE}, LifeSnoozeTimes,
                LiveMaxSnoozes)
    \/ InitWith(LiveInstants, LifeTimes, LifeSchedules, {FALSE}, LifeSnoozeTimes,
                {1})

NextLive ==
    \/ Tick(LiveInstants)
    \/ MarkTriggered(LiveInstants)
    \/ Snooze
    \/ SaveLands
    \/ Exit
    \/ UpdateAlert

SpecLive ==
    /\ InitLive
    /\ [][NextLive]_vars
    /\ WF_vars(Reactivate)

\* The next-trigger computation alone, over every frequency, times of day at
\* both ends of the day, and instants around the time of day, around midnight
\* and around the ends of months and years.
InitCalc ==
    InitWith(CalcInstants, CalcTimes, AllSchedules, {TRUE}, {DefaultSnoozeTime},
             {DefaultMaxSnoozes})

NextCalc ==
    \/ Tick(Near(CalcInstants, MaxCalcDays, clock))
    \/ CalculateNextTrigger(Near(CalcInstants, MaxCalcDays, clock))
    \/ SaveLands

SpecCalc == InitCalc /\ [][NextCalc]_vars

\* The next-trigger computation over instants a minute before midnight and
\* at midnight, where the process is suspended, or the wall clock is set
\* forward, between the two `new Date()`.
MaxStallDays == 1

StallMs == {T(0, 0, 0, 0), T(23, 58, 59, 999), T(23, 59, 59, 999)}

StallInstants == InstantsFrom(LifeStartDays, MaxStallDays, StallMs)

InitStall ==
    InitWith(StallInstants, CalcTimes, AllSchedules, {TRUE}, {DefaultSnoozeTime},
             {DefaultMaxSnoozes})

NextStall ==
    \/ Tick(StallInstants)
    \/ CalculateNextTrigger(StallInstants)
    \/ SaveLands

SpecStall == InitStall /\ [][NextStall]_vars

\* Creation: an alert constructed from a schedule alone (isActive left to its
\* default), its next trigger computed, and the controller's create handler.
CreateTimes == {T0800, T800, T2400}

InitCreate ==
    InitWith(LifeInstants, CreateTimes, AllSchedules, {TRUE}, LifeSnoozeTimes,
             MaxSnoozesRange)

NextCreate ==
    \/ Tick(LifeInstants)
    \/ CalculateNextTrigger(LifeInstants)
    \/ SaveLands
    \/ CreateAlert(LifeInstants)

SpecCreate == InitCreate /\ [][NextCreate]_vars

\* Two request handlers on the same stored alert, one firing it and one
\* snoozing it.  Each loads its own document, calls the document's method, and
\* the method's save() writes the paths the handler changed; nothing compares
\* the record with what the handler loaded, and nothing retries.
Handlers == {"fire", "snooze"}

Other(h) == IF h = "fire" THEN "snooze" ELSE "fire"

\* save(): an update setting the paths whose value differs from the loaded one
Persist(record, loaded, doc) ==
    [f \in DOMAIN record |-> IF doc[f] # loaded[f] THEN doc[f] ELSE record[f]]

\* the handler reads the stored record into a document of its own
LoadAlert(h) ==
    /\ txn[h].pc = "idle"
    /\ txn' = [txn EXCEPT ![h] =
                  [pc |-> "loaded",
                   base |-> IF txn[Other(h)].pc = "idle" THEN stored
                            ELSE txn[Other(h)].base,
                   loaded |-> stored,
                   doc |-> stored,
                   reads |-> <<>>]]
    /\ pre' = alert
    /\ result' = Outcome("load", TRUE, "", clock, 0, NoBody)
    /\ response' = NoResponse
    /\ UNCHANGED <<clock, alert, stored, streak, streakStart, flight, users, http>>

\* the firing handler calls markTriggered() on its document: the document
\* changes, the call returns the rejection of its second save, and the first
\* save is in flight
FireLoaded(S) ==
    /\ txn.fire.pc = "loaded"
    /\ \E now \in ReadsAfter(S, clock) :
         \E now2 \in ReadsAfter(S, now) :
           LET doc == MarkTriggeredDoc(txn.fire.doc, clock, now, now2)
           IN  /\ txn' = [txn EXCEPT !.fire.pc = "saving", !.fire.doc = doc,
                                     !.fire.reads = <<clock, now, now2>>]
               /\ clock' = now2
               /\ result' = Outcome("markTriggered", FALSE, "ParallelSaveError",
                                    clock, 2, NoBody)
    /\ pre' = alert
    /\ response' = NoResponse
    /\ UNCHANGED <<alert, stored, streak, streakStart, flight, users, http>>

\* the snoozing handler calls snooze() on its document: the document changes
\* and the save whose promise the call returns is in flight
SnoozeLoaded ==
    /\ txn.snooze.pc = "loaded"
    /\ IF SnoozeLimitReached(txn.snooze.doc)
       THEN /\ txn' = [txn EXCEPT !.snooze.pc = "done", !.snooze.reads = <<clock>>]
            /\ result' = Outcome("snooze", FALSE, "Maximum snoozes reached", clock,
                                 0, NoBody)
       ELSE /\ txn' = [txn EXCEPT !.snooze.pc = "saving",
                                  !.snooze.doc = SnoozeDoc(txn.snooze.doc, clock),
                                  !.snooze.reads = <<clock>>]
            /\ result' = Outcome("snooze called", TRUE, "", clock, 1, NoBody)
    /\ pre' = alert
    /\ response' = NoResponse
    /\ UNCHANGED <<clock, alert, stored, streak, streakStart, flight, users, http>>

\* the save a handler has in flight settles: its write reaches the store, and
\* the promise of snooze() is fulfilled
WriteLands(h) ==
    /\ txn[h].pc = "saving"
    /\ stored' = Persist(stored, txn[h].loaded, txn[h].doc)
    /\ txn' = [txn EXCEPT ![h].pc = "done"]
    /\ result' = IF h = "snooze"
                 THEN Outcome("snooze", TRUE, "", txn[h].reads[1], 1, NoBody)
                 ELSE Outcome("save", TRUE, "", clock, 0, NoBody)
    /\ pre' = alert
    /\ response' = NoResponse
    /\ UNCHANGED <<clock, alert, streak, streakStart, flight, users, http>>

InitConc ==
    InitWith(LifeInstants, LifeTimes, LifeSchedules, {TRUE}, LifeSnoozeTimes,
             MaxSnoozesRange)

NextConc ==
    \/ Tick(LifeInstants)
    \/ \E h \in Handlers : LoadAlert(h)
    \/ FireLoaded(LifeInstants)
    \/ SnoozeLoaded
    \/ \E h \in Handlers : WriteLands(h)

SpecConc == InitConc /\ [][NextConc]_vars

----------------------------------------------------------------------------
(* String.prototype.toLowerCase: the lower-case mapping of the Unicode      *)
(* Character Database, on the code points of the string.  The repository    *)
(* names no engine version; the tables are those of Unicode 17.0.           *)

\* the simple lower-case mappings: <<first, last, step, offset>> maps the code
\* points first, first + step, ..., last to themselves plus offset
LowerCaseRanges ==
    {<<65, 90, 1, 32>>, <<192, 214, 1, 32>>, <<216, 222, 1, 32>>,
     <<256, 302, 2, 1>>, <<306, 310, 2, 1>>, <<313, 327, 2, 1>>,
     <<330, 374, 2, 1>>, <<376, 376, 1, -121>>, <<377, 381, 2, 1>>,
     <<385, 385, 1, 210>>, <<386, 388, 2, 1>>, <<390, 390, 1, 206>>,
     <<391, 391, 1, 1>>, <<393, 394, 1, 205>>, <<395, 395, 1, 1>>,
     <<398, 398, 1, 79>>, <<399, 399, 1, 202>>, <<400, 400, 1, 203>>,
     <<401, 401, 1, 1>>, <<403, 403, 1, 205>>, <<404, 404, 1, 207>>,
     <<406, 406, 1, 211>>, <<407, 407, 1, 209>>, <<408, 408, 1, 1>>,
     <<412, 412, 1, 211>>, <<413, 413, 1, 213>>, <<415, 415, 1, 214>>,
     <<416, 420, 2, 1>>, <<422, 422, 1, 218>>, <<423, 423, 1, 1>>,
     <<425, 425, 1, 218>>, <<428, 428, 1, 1>>, <<430, 430, 1, 218>>,
     <<431, 431, 1, 1>>, <<433, 434, 1, 217>>, <<435, 437, 2, 1>>,
     <<439, 439, 1, 219>>, <<440, 440, 1, 1>>, <<444, 444, 1, 1>>,
     <<452, 452, 1, 2>>, <<453, 453, 1, 1>>, <<455, 455, 1, 2>>,
     <<456, 456, 1, 1>>, <<458, 458, 1, 2>>, <<459, 475, 2, 1>>,
     <<478, 494, 2, 1>>, <<497, 497, 1, 2>>, <<498, 500, 2, 1>>,
     <<502, 502, 1, -97>>, <<503, 503, 1, -56>>, <<504, 542, 2, 1>>,
     <<544, 544, 1, -130>>, <<546, 562, 2, 1>>, <<570, 570, 1, 10795>>,
     <<571, 571, 1, 1>>, <<573, 573, 1, -163>>, <<574, 574, 1, 10792>>,
     <<577, 577, 1, 1>>, <<579, 579, 1, -195>>, <<580, 580, 1, 69>>,
     <<581, 581, 1, 71>>, <<582, 590, 2, 1>>, <<880, 882, 2, 1>>,
     <<886, 886, 1, 1>>, <<895, 895, 1, 116>>, <<902, 902, 1, 38>>,
     <<904, 906, 1, 37>>, <<908, 908, 1, 64>>, <<910, 911, 1, 63>>,
     <<913, 929, 1, 32>>, <<931, 939, 1, 32>>, <<975, 975, 1, 8>>,
     <<984, 1006, 2, 1>>, <<1012, 1012, 1, -60>>, <<1015, 1015, 1, 1>>,
     <<1017, 1017, 1, -7>>, <<1018, 1018, 1, 1>>, <<1021, 1023, 1, -130>>,
     <<1024, 1039, 1, 80>>, <<1040, 1071, 1, 32>>, <<1120, 1152, 2, 1>>,
     <<1162, 1214, 2, 1>>, <<1216, 1216, 1, 15>>, <<1217, 1229, 2, 1>>,
     <<1232, 1326, 2, 1>>, <<1329, 1366, 1, 48>>, <<4256, 4293, 1, 7264>>,
     <<4295, 4295, 1, 7264>>, <<4301, 4301, 1, 7264>>,
     <<5024, 5103, 1, 38864>>, <<5104, 5109, 1, 8>>, <<7305, 7305, 1, 1>>,
     <<7312, 7354, 1, -3008>>, <<7357, 7359, 1, -3008>>, <<7680, 7828, 2, 1>>,
     <<7838, 7838, 1, -7615>>, <<7840, 7934, 2, 1>>, <<7944, 7951, 1, -8>>,
     <<7960, 7965, 1, -8>>, <<7976, 7983, 1, -8>>, <<7992, 7999, 1, -8>>,
     <<8008, 8013, 1, -8>>, <<8025, 8031, 2, -8>>, <<8040, 8047, 1, -8>>,
     <<8072, 8079, 1, -8>>, <<8088, 8095, 1, -8>>, <<8104, 8111, 1, -8>>,
     <<8120, 8121, 1, -8>>, <<8122, 8123, 1, -74>>, <<8124, 8124, 1, -9>>,
     <<8136, 8139, 1, -86>>, <<8140, 8140, 1, -9>>, <<8152, 8153, 1, -8>>,
     <<8154, 8155, 1, -100>>, <<8168, 8169, 1, -8>>, <<8170, 8171, 1, -112>>,
     <<8172, 8172, 1, -7>>, <<8184, 8185, 1, -128>>, <<8186, 8187, 1, -126>>,
     <<8188, 8188, 1, -9>>, <<8486, 8486, 1, -7517>>,
     <<8490, 8490, 1, -8383>>, <<8491, 8491, 1, -8262>>,
     <<8498, 8498, 1, 28>>, <<8544, 8559, 1, 16>>, <<8579, 8579, 1, 1>>,
     <<9398, 9423, 1, 26>>, <<11264, 11311, 1, 48>>, <<11360, 11360, 1, 1>>,
     <<11362, 11362, 1, -10743>>, <<11363, 11363, 1, -3814>>,
     <<11364, 11364, 1, -10727>>, <<11367, 11371, 2, 1>>,
     <<11373, 11373, 1, -10780>>, <<11374, 11374, 1, -10749>>,
     <<11375, 11375, 1, -10783>>, <<11376, 11376, 1, -10782>>,
     <<11378, 11378, 1, 1>>, <<11381, 11381, 1, 1>>,
     <<11390, 11391, 1, -10815>>, <<11392, 11490, 2, 1>>,
     <<11499, 11501, 2, 1>>, <<11506, 11506, 1, 1>>, <<42560, 42604, 2, 1>>,
     <<42624, 42650, 2, 1>>, <<42786, 42798, 2, 1>>, <<42802, 42862, 2, 1>>,
     <<42873, 42875, 2, 1>>, <<42877, 42877, 1, -35332>>,
     <<42878, 42886, 2, 1>>, <<42891, 42891, 1, 1>>,
     <<42893, 42893, 1, -42280>>, <<42896, 42898, 2, 1>>,
     <<42902, 42920, 2, 1>>, <<42922, 42922, 1, -42308>>,
     <<42923, 42923, 1, -42319>>, <<42924, 42924, 1, -42315>>,
     <<42925, 42925, 1, -42305>>, <<42926, 42926, 1, -42308>>,
     <<42928, 42928, 1, -42258>>, <<42929, 42929, 1, -42282>>,
     <<42930, 42930, 1, -42261>>, <<42931, 42931, 1, 928>>,
     <<42932, 42946, 2, 1>>, <<42948, 42948, 1, -48>>,
     <<42949, 42949, 1, -42307>>, <<42950, 42950, 1, -35384>>,
     <<42951, 42953, 2, 1>>, <<42955, 42955, 1, -42343>>,
     <<42956, 42956, 1, 1>>, <<42958, 42958, 1, 1>>, <<42960, 42960, 1, 1>>,
     <<42962, 42962, 1, 1>>, <<42964, 42964, 1, 1>>, <<42966, 42968, 2, 1>>,
     <<42970, 42970, 1, 1>>, <<42972, 42972, 1, -42561>>,
     <<42997, 42997, 1, 1>>, <<65313, 65338, 1, 32>>, <<66560, 66599, 1, 40>>,
     <<66736, 66771, 1, 40>>, <<66928, 66938, 1, 39>>,
     <<66940, 66954, 1, 39>>, <<66956, 66962, 1, 39>>,
     <<66964, 66965, 1, 39>>, <<68736, 68786, 1, 64>>,
     <<68944, 68965, 1, 32>>, <<71840, 71871, 1, 32>>,
     <<93760, 93791, 1, 32>>, <<93856, 93880, 1, 27>>,
     <<125184, 125217, 1, 34>>}

\* the code points <<first, last>> that are Case_Ignorable
CaseIgnorableRanges ==
    {<<39, 39>>, <<46, 46>>, <<58, 58>>, <<94, 94>>, <<96, 96>>, <<168, 168>>,
     <<173, 173>>, <<175, 175>>, <<180, 180>>, <<183, 184>>, <<688, 879>>,
     <<884, 885>>, <<890, 890>>, <<900, 901>>, <<903, 903>>, <<1155, 1161>>,
     <<1369, 1369>>, <<1375, 1375>>, <<1425, 1469>>, <<1471, 1471>>,
     <<1473, 1474>>, <<1476, 1477>>, <<1479, 1479>>, <<1524, 1524>>,
     <<1536, 1541>>, <<1552, 1562>>, <<1564, 1564>>, <<1600, 1600>>,
     <<1611, 1631>>, <<1648, 1648>>, <<1750, 1757>>, <<1759, 1768>>,
     <<1770, 1773>>, <<1807, 1807>>, <<1809, 1809>>, <<1840, 1866>>,
     <<1958, 1968>>, <<2027, 2037>>, <<2042, 2042>>, <<2045, 2045>>,
     <<2070, 2093>>, <<2137, 2139>>, <<2184, 2184>>, <<2192, 2193>>,
     <<2199, 2207>>, <<2249, 2306>>, <<2362, 2362>>, <<2364, 2364>>,
     <<2369, 2376>>, <<2381, 2381>>, <<2385, 2391>>, <<2402, 2403>>,
     <<2417, 2417>>, <<2433, 2433>>, <<2492, 2492>>, <<2497, 2500>>,
     <<2509, 2509>>, <<2530, 2531>>, <<2558, 2558>>, <<2561, 2562>>,
     <<2620, 2620>>, <<2625, 2626>>, <<2631, 2632>>, <<2635, 2637>>,
     <<2641, 2641>>, <<2672, 2673>>, <<2677, 2677>>, <<2689, 2690>>,
     <<2748, 2748>>, <<2753, 2757>>, <<2759, 2760>>, <<2765, 2765>>,
     <<2786, 2787>>, <<2810, 2815>>, <<2817, 2817>>, <<2876, 2876>>,
     <<2879, 2879>>, <<2881, 2884>>, <<2893, 2893>>, <<2901, 2902>>,
     <<2914, 2915>>, <<2946, 2946>>, <<3008, 3008>>, <<3021, 3021>>,
     <<3072, 3072>>, <<3076, 3076>>, <<3132, 3132>>, <<3134, 3136>>,
     <<3142, 3144>>, <<3146, 3149>>, <<3157, 3158>>, <<3170, 3171>>,
     <<3201, 3201>>, <<3260, 3260>>, <<3263, 3263>>, <<3270, 3270>>,
     <<3276, 3277>>, <<3298, 3299>>, <<3328, 3329>>, <<3387, 3388>>,
     <<3393, 3396>>, <<3405, 3405>>, <<3426, 3427>>, <<3457, 3457>>,
     <<3530, 3530>>, <<3538, 3540>>, <<3542, 3542>>, <<3633, 3633>>,
     <<3636, 3642>>, <<3654, 3662>>, <<3761, 3761>>, <<3764, 3772>>,
     <<3782, 3782>>, <<3784, 3790>>, <<3864, 3865>>, <<3893, 3893>>,
     <<3895, 3895>>, <<3897, 3897>>, <<3953, 3966>>, <<3968, 3972>>,
     <<3974, 3975>>, <<3981, 3991>>, <<3993, 4028>>, <<4038, 4038>>,
     <<4141, 4144>>, <<4146, 4151>>, <<4153, 4154>>, <<4157, 4158>>,
     <<4184, 4185>>, <<4190, 4192>>, <<4209, 4212>>, <<4226, 4226>>,
     <<4229, 4230>>, <<4237, 4237>>, <<4253, 4253>>, <<4348, 4348>>,
     <<4957, 4959>>, <<5906, 5908>>, <<5938, 5939>>, <<5970, 5971>>,
     <<6002, 6003>>, <<6068, 6069>>, <<6071, 6077>>, <<6086, 6086>>,
     <<6089, 6099>>, <<6103, 6103>>, <<6109, 6109>>, <<6155, 6159>>,
     <<6211, 6211>>, <<6277, 6278>>, <<6313, 6313>>, <<6432, 6434>>,
     <<6439, 6440>>, <<6450, 6450>>, <<6457, 6459>>, <<6679, 6680>>,
     <<6683, 6683>>, <<6742, 6742>>, <<6744, 6750>>, <<6752, 6752>>,
     <<6754, 6754>>, <<6757, 6764>>, <<6771, 6780>>, <<6783, 6783>>,
     <<6823, 6823>>, <<6832, 6877>>, <<6880, 6891>>, <<6912, 6915>>,
     <<6964, 6964>>, <<6966, 6970>>, <<6972, 6972>>, <<6978, 6978>>,
     <<7019, 7027>>, <<7040, 7041>>, <<7074, 7077>>, <<7080, 7081>>,
     <<7083, 7085>>, <<7142, 7142>>, <<7144, 7145>>, <<7149, 7149>>,
     <<7151, 7153>>, <<7212, 7219>>, <<7222, 7223>>, <<7288, 7293>>,
     <<7376, 7378>>, <<7380, 7392>>, <<7394, 7400>>, <<7405, 7405>>,
     <<7412, 7412>>, <<7416, 7417>>, <<7468, 7530>>, <<7544, 7544>>,
     <<7579, 7679>>, <<8125, 8125>>, <<8127, 8129>>, <<8141, 8143>>,
     <<8157, 8159>>, <<8173, 8175>>, <<8189, 8190>>, <<8203, 8207>>,
     <<8216, 8217>>, <<8228, 8228>>, <<8231, 8231>>, <<8234, 8238>>,
     <<8288, 8292>>, <<8294, 8303>>, <<8305, 8305>>, <<8319, 8319>>,
     <<8336, 8348>>, <<8400, 8432>>, <<11388, 11389>>, <<11503, 11505>>,
     <<11631, 11631>>, <<11647, 11647>>, <<11744, 11775>>, <<11823, 11823>>,
     <<12293, 12293>>, <<12330, 12333>>, <<12337, 12341>>, <<12347, 12347>>,
     <<12441, 12446>>, <<12540, 12542>>, <<40981, 40981>>, <<42232, 42237>>,
     <<42508, 42508>>, <<42607, 42610>>, <<42612, 42621>>, <<42623, 42623>>,
     <<42652, 42655>>, <<42736, 42737>>, <<42752, 42785>>, <<42864, 42864>>,
     <<42888, 42890>>, <<42993, 42996>>, <<43000, 43001>>, <<43010, 43010>>,
     <<43014, 43014>>, <<43019, 43019>>, <<43045, 43046>>, <<43052, 43052>>,
     <<43204, 43205>>, <<43232, 43249>>, <<43263, 43263>>, <<43302, 43309>>,
     <<43335, 43345>>, <<43392, 43394>>, <<43443, 43443>>, <<43446, 43449>>,
     <<43452, 43453>>, <<43471, 43471>>, <<43493, 43494>>, <<43561, 43566>>,
     <<43569, 43570>>, <<43573, 43574>>, <<43587, 43587>>, <<43596, 43596>>,
     <<43632, 43632>>, <<43644, 43644>>, <<43696, 43696>>, <<43698, 43700>>,
     <<43703, 43704>>, <<43710, 43711>>, <<43713, 43713>>, <<43741, 43741>>,
     <<43756, 43757>>, <<43763, 43764>>, <<43766, 43766>>, <<43867, 43871>>,
     <<43881, 43883>>, <<44005, 44005>>, <<44008, 44008>>, <<44013, 44013>>,
     <<64286, 64286>>, <<64434, 64450>>, <<65024, 65039>>, <<65043, 65043>>,
     <<65056, 65071>>, <<65106, 65106>>, <<65109, 65109>>, <<65279, 65279>>,
     <<65287, 65287>>, <<65294, 65294>>, <<65306, 65306>>, <<65342, 65342>>,
     <<65344, 65344>>, <<65392, 65392>>, <<65438, 65439>>, <<65507, 65507>>,
     <<65529, 65531>>, <<66045, 66045>>, <<66272, 66272>>, <<66422, 66426>>,
     <<67456, 67461>>, <<67463, 67504>>, <<67506, 67514>>, <<68097, 68099>>,
     <<68101, 68102>>, <<68108, 68111>>, <<68152, 68154>>, <<68159, 68159>>,
     <<68325, 68326>>, <<68900, 68903>>, <<68942, 68942>>, <<68969, 68973>>,
     <<68975, 68975>>, <<69291, 69292>>, <<69317, 69317>>, <<69370, 69375>>,
     <<69446, 69456>>, <<69506, 69509>>, <<69633, 69633>>, <<69688, 69702>>,
     <<69744, 69744>>, <<69747, 69748>>, <<69759, 69761>>, <<69811, 69814>>,
     <<69817, 69818>>, <<69821, 69821>>, <<69826, 69826>>, <<69837, 69837>>,
     <<69888, 69890>>, <<69927, 69931>>, <<69933, 69940>>, <<70003, 70003>>,
     <<70016, 70017>>, <<70070, 70078>>, <<70089, 70092>>, <<70095, 70095>>,
     <<70191, 70193>>, <<70196, 70196>>, <<70198, 70199>>, <<70206, 70206>>,
     <<70209, 70209>>, <<70367, 70367>>, <<70371, 70378>>, <<70400, 70401>>,
     <<70459, 70460>>, <<70464, 70464>>, <<70502, 70508>>, <<70512, 70516>>,
     <<70587, 70592>>, <<70606, 70606>>, <<70608, 70608>>, <<70610, 70610>>,
     <<70625, 70626>>, <<70712, 70719>>, <<70722, 70724>>, <<70726, 70726>>,
     <<70750, 70750>>, <<70835, 70840>>, <<70842, 70842>>, <<70847, 70848>>,
     <<70850, 70851>>, <<71090, 71093>>, <<71100, 71101>>, <<71103, 71104>>,
     <<71132, 71133>>, <<71219, 71226>>, <<71229, 71229>>, <<71231, 71232>>,
     <<71339, 71339>>, <<71341, 71341>>, <<71344, 71349>>, <<71351, 71351>>,
     <<71453, 71453>>, <<71455, 71455>>, <<71458, 71461>>, <<71463, 71467>>,
     <<71727, 71735>>, <<71737, 71738>>, <<71995, 71996>>, <<71998, 71998>>,
     <<72003, 72003>>, <<72148, 72151>>, <<72154, 72155>>, <<72160, 72160>>,
     <<72193, 72202>>, <<72243, 72248>>, <<72251, 72254>>, <<72263, 72263>>,
     <<72273, 72278>>, <<72281, 72283>>, <<72330, 72342>>, <<72344, 72345>>,
     <<72544, 72544>>, <<72546, 72548>>, <<72550, 72550>>, <<72752, 72758>>,
     <<72760, 72765>>, <<72767, 72767>>, <<72850, 72871>>, <<72874, 72880>>,
     <<72882, 72883>>, <<72885, 72886>>, <<73009, 73014>>, <<73018, 73018>>,
     <<73020, 73021>>, <<73023, 73029>>, <<73031, 73031>>, <<73104, 73105>>,
     <<73109, 73109>>, <<73111, 73111>>, <<73177, 73177>>, <<73459, 73460>>,
     <<73472, 73473>>, <<73526, 73530>>, <<73536, 73536>>, <<73538, 73538>>,
     <<73562, 73562>>, <<78896, 78912>>, <<78919, 78933>>, <<90398, 90409>>,
     <<90413, 90415>>, <<92912, 92916>>, <<92976, 92982>>, <<92992, 92995>>,
     <<93504, 93506>>, <<93547, 93548>>, <<94031, 94031>>, <<94095, 94111>>,
     <<94176, 94177>>, <<94179, 94180>>, <<94194, 94195>>, <<110576, 110579>>,
     <<110581, 110587>>, <<110589, 110590>>, <<113821, 113822>>,
     <<113824, 113827>>, <<118528, 118573>>, <<118576, 118598>>,
     <<119143, 119145>>, <<119155, 119170>>, <<119173, 119179>>,
     <<119210, 119213>>, <<119362, 119364>>, <<121344, 121398>>,
     <<121403, 121452>>, <<121461, 121461>>, <<121476, 121476>>,
     <<121499, 121503>>, <<121505, 121519>>, <<122880, 122886>>,
     <<122888, 122904>>, <<122907, 122913>>, <<122915, 122916>>,
     <<122918, 122922>>, <<122928, 122989>>, <<123023, 123023>>,
     <<123184, 123197>>, <<123566, 123566>>, <<123628, 123631>>,
     <<124139, 124143>>, <<124398, 124399>>, <<124643, 124643>>,
     <<124646, 124646>>, <<124654, 124655>>, <<124661, 124661>>,
     <<124671, 124671>>, <<125136, 125142>>, <<125252, 125259>>,
     <<127995, 127999>>, <<917505, 917505>>, <<917536, 917631>>,
     <<917760, 917999>>}

\* the code points <<first, last>> that are Cased and not Case_Ignorable
CasedRanges ==
    {<<65, 90>>, <<97, 122>>, <<170, 170>>, <<181, 181>>, <<186, 186>>,
     <<192, 214>>, <<216, 246>>, <<248, 442>>, <<444, 447>>, <<452, 659>>,
     <<662, 687>>, <<880, 883>>, <<886, 887>>, <<891, 893>>, <<895, 895>>,
     <<902, 902>>, <<904, 906>>, <<908, 908>>, <<910, 929>>, <<931, 1013>>,
     <<1015, 1153>>, <<1162, 1327>>, <<1329, 1366>>, <<1376, 1416>>,
     <<4256, 4293>>, <<4295, 4295>>, <<4301, 4301>>, <<4304, 4346>>,
     <<4349, 4351>>, <<5024, 5109>>, <<5112, 5117>>, <<7296, 7306>>,
     <<7312, 7354>>, <<7357, 7359>>, <<7424, 7467>>, <<7531, 7543>>,
     <<7545, 7578>>, <<7680, 7957>>, <<7960, 7965>>, <<7968, 8005>>,
     <<8008, 8013>>, <<8016, 8023>>, <<8025, 8025>>, <<8027, 8027>>,
     <<8029, 8029>>, <<8031, 8061>>, <<8064, 8116>>, <<8118, 8124>>,
     <<8126, 8126>>, <<8130, 8132>>, <<8134, 8140>>, <<8144, 8147>>,
     <<8150, 8155>>, <<8160, 8172>>, <<8178, 8180>>, <<8182, 8188>>,
     <<8450, 8450>>, <<8455, 8455>>, <<8458, 8467>>, <<8469, 8469>>,
     <<8473, 8477>>, <<8484, 8484>>, <<8486, 8486>>, <<8488, 8488>>,
     <<8490, 8493>>, <<8495, 8500>>, <<8505, 8505>>, <<8508, 8511>>,
     <<8517, 8521>>, <<8526, 8526>>, <<8544, 8575>>, <<8579, 8580>>,
     <<9398, 9449>>, <<11264, 11387>>, <<11390, 11492>>, <<11499, 11502>>,
     <<11506, 11507>>, <<11520, 11557>>, <<11559, 11559>>, <<11565, 11565>>,
     <<42560, 42605>>, <<42624, 42651>>, <<42786, 42863>>, <<42865, 42887>>,
     <<42891, 42894>>, <<42896, 42972>>, <<42997, 42998>>, <<43002, 43002>>,
     <<43824, 43866>>, <<43872, 43880>>, <<43888, 43967>>, <<64256, 64262>>,
     <<64275, 64279>>, <<65313, 65338>>, <<65345, 65370>>, <<66560, 66639>>,
     <<66736, 66771>>, <<66776, 66811>>, <<66928, 66938>>, <<66940, 66954>>,
     <<66956, 66962>>, <<66964, 66965>>, <<66967, 66977>>, <<66979, 66993>>,
     <<66995, 67001>>, <<67003, 67004>>, <<68736, 68786>>, <<68800, 68850>>,
     <<68944, 68965>>, <<68976, 68997>>, <<71840, 71903>>, <<93760, 93823>>,
     <<93856, 93880>>, <<93883, 93907>>, <<119808, 119892>>,
     <<119894, 119964>>, <<119966, 119967>>, <<119970, 119970>>,
     <<119973, 119974>>, <<119977, 119980>>, <<119982, 119993>>,
     <<119995, 119995>>, <<119997, 120003>>, <<120005, 120069>>,
     <<120071, 120074>>, <<120077, 120084>>, <<120086, 120092>>,
     <<120094, 120121>>, <<120123, 120126>>, <<120128, 120132>>,
     <<120134, 120134>>, <<120138, 120144>>, <<120146, 120485>>,
     <<120488, 120512>>, <<120514, 120538>>, <<120540, 120570>>,
     <<120572, 120596>>, <<120598, 120628>>, <<120630, 120654>>,
     <<120656, 120686>>, <<120688, 120712>>, <<120714, 120744>>,
     <<120746, 120770>>, <<120772, 120779>>, <<122624, 122633>>,
     <<122635, 122654>>, <<122661, 122666>>, <<125184, 125251>>,
     <<127280, 127305>>, <<127312, 127337>>, <<127344, 127369>>}

InRanges(cp, ranges) == \E r \in ranges : r[1] <= cp /\ cp <= r[2]

\* the lower-case mapping of a code point that is mapped to one code point
LowerCaseOf(cp) ==
    LET Maps(r) == r[1] <= cp /\ cp <= r[2] /\ (cp - r[1]) % r[3] = 0
    IN  IF cp < 128 THEN (IF cp \in 65..90 THEN cp + 32 ELSE cp)
        ELSE IF \E r \in LowerCaseRanges : Maps(r)
        THEN cp + (CHOOSE r \in LowerCaseRanges : Maps(r))[4]
        ELSE cp

\* the code points of a string: a high surrogate followed by a low surrogate
\* is one code point, any other code unit is its own
CodePoints(s) ==
    LET Step(a, i) ==
            IF /\ i > 1
               /\ s[i] \in 56320..57343
               /\ s[i - 1] \in 55296..56319
               /\ Len(a) > 0
               /\ a[Len(a)] = s[i - 1]
            THEN [a EXCEPT ![Len(a)] =
                     65536 + (s[i - 1] - 55296) * 1024 + (s[i] - 56320)]
            ELSE Append(a, s[i])
    IN  Iterate(Step, <<>>, 1, Len(s))

\* the code units of a sequence of code points
CodeUnits(cps) ==
    LET Step(a, i) ==
            IF cps[i] >= 65536
            THEN a \o <<55296 + ((cps[i] - 65536) \div 1024),
                        56320 + ((cps[i] - 65536) % 1024)>>
            ELSE Append(a, cps[i])
    IN  Iterate(Step, <<>>, 1, Len(cps))

\* Final_Sigma: the code point at i is preceded by a cased letter and then any
\* number of case-ignorable code points, and not followed by any number of
\* case-ignorable code points and then a cased letter
FinalSigma(cps, i) ==
    LET Cased(j) == InRanges(cps[j], CasedRanges)
        Ignorable(j) == InRanges(cps[j], CaseIgnorableRanges)
    IN  /\ \E j \in 1..(i - 1) :
              Cased(j) /\ \A k \in (j + 1)..(i - 1) : Ignorable(k)
        /\ ~\E j \in (i + 1)..Len(cps) :
               Cased(j) /\ \A k \in (i + 1)..(j - 1) : Ignorable(k)

\* String.prototype.toLowerCase, the `lowercase: true` setter of
\* userSchema.email: U+0130 becomes i and U+0307, a capital sigma the final or
\* the medial small sigma, every other code point its simple mapping
ToLowerCase(s) ==
    LET cps == CodePoints(s)
        Step(a, i) ==
            IF cps[i] = 304 THEN a \o <<105, 775>>
            ELSE IF cps[i] = 931
            THEN Append(a, IF FinalSigma(cps, i) THEN 962 ELSE 963)
            ELSE Append(a, LowerCaseOf(cps[i]))
    IN  IF \A i \in 1..Len(s) : s[i] < 128
        THEN [i \in 1..Len(s) |-> LowerCaseOf(s[i])]
        ELSE CodeUnits(Iterate(Step, <<>>, 1, Len(cps)))

\* [A-Za-z0-9_], the class \w
WordCharacter(c) ==
    c \in 48..57 \/ c \in 65..90 \/ c \in 97..122 \/ c = 95

\* \w+([.-]?\w+)*: word characters with single dots and hyphens between them
DottedWords(s) ==
    /\ Len(s) > 0
    /\ WordCharacter(s[1])
    /\ WordCharacter(s[Len(s)])
    /\ \A i \in 1..Len(s) : WordCharacter(s[i]) \/ s[i] \in {45, 46}
    /\ \A i \in 1..(Len(s) - 1) : WordCharacter(s[i]) \/ WordCharacter(s[i + 1])

\* the `match` of userSchema.email:
\* /^\w+([.-]?\w+)*@\w+([.-]?\w+)*(\.\w{2,3})+$/
EmailMatches(s) ==
    \E at \in 1..Len(s) :
        /\ s[at] = 64
        /\ DottedWords(SubSeq(s, 1, at - 1))
        /\ \E k \in {2, 3} :
              /\ Len(s) - at >= k + 2
              /\ s[Len(s) - k] = 46
              /\ \A i \in (Len(s) - k + 1)..Len(s) : WordCharacter(s[i])
              /\ DottedWords(SubSeq(s, at + 1, Len(s) - k - 1))

----------------------------------------------------------------------------
(* Accounts: the User collection, the auth controller and authenticateToken. *)
(* Requests carry well-formed emails and passwords.                         *)

alertVars ==
    <<clock, alert, stored, pre, result, response, streak, streakStart, txn, flight>>

\* the setters of userSchema.email, `lowercase: true` and `trim: true`, which
\* Mongoose applies to a value set on a document and to a value of a query
CastEmail(s) == ToLowerCase(Trim(s))

\* amy@x.io, and the same address as typed with a blank before it and a capital
Amy == Str(<<"a", "m", "y", "@", "x", ".", "i", "o">>)
AmyCapital == Str(<<" ", "A", "m", "y", "@", "x", ".", "i", "o">>)
Bob == Str(<<"b", "o", "b", "@", "x", ".", "i", "o">>)

Emails == {Amy, AmyCapital, Bob}
Passwords == {"secret1"}

\* the most users the collection holds
MaxUsers == 2

\* the number of requests that arrive in a run
MaxRequests == 4

\* new User({email, password}) as saved: the email through its setters, the
\* other fields at their defaults
NewUser(email, password) ==
    [email |-> CastEmail(email), password |-> password, isActive |-> TRUE,
     lastLogin |-> Null]

\* User.findOne({email}): the query value is cast through the schema's setters
FindByEmail(us, email) == {u \in 1..Len(us) : us[u].email = CastEmail(email)}

\* mutant: no unique index on email
DuplicateKey_NoIndex(us, user) == FALSE

\* the unique index on email rejects the insert of user (error code 11000)
DuplicateKey(us, user) == \E u \in 1..Len(us) : us[u].email = user.email

\* the users whose account is deactivated
Deactivated == {u \in 1..Len(users) : ~users[u].isActive}

\* the tokens a client can send: none, one that does not verify, and for a
\* user who was issued one, that token within or past its expiry
Tokens ==
    {NoToken, [kind |-> "malformed", id |-> 0]}
        \cup {[kind |-> k, id |-> u] : k \in {"signed", "expired"}, u \in http.issued}

\* mutant: jwt.decode in place of jwt.verify
Verifies_Decoded(token) == token.kind \in {"signed", "expired", "malformed"}

\* jwt.verify(token, secret) returns the payload
Verifies(token) == token.kind = "signed"

\* mutant: no isActive test in authenticateToken
Admits_Deactivated(user) == TRUE

\* authenticateToken lets the user found for the token through
Admits(user) == user.isActive

\* a request as it arrives
Arriving(kind, email, password, token) ==
    [IdleRequest EXCEPT !.kind = kind, !.email = email, !.password = password,
                        !.token = token,
                        !.taken = kind = "register"
                                      /\ FindByEmail(users, email) # {},
                        !.after = IF kind = "register" THEN {} ELSE Deactivated]

\* the requests that have arrived, after a step of slot r: one more when the
\* slot was free
ArrivedWith(r) ==
    http.arrived + (IF http.reqs[r].kind = "idle" THEN 1 ELSE 0)

\* the slot takes the request up to its next await
Await(r, req) ==
    http' = [http EXCEPT !.reqs[r] = req, !.arrived = ArrivedWith(r)]

\* the response is sent: status, body.message, body.error, whether the route's
\* handler was invoked, and the users a token in the body was signed for; the
\* request is kept with it, without the handler's position and document
Answer(r, req, status, message, error, handled, signedFor) ==
    http' = [reqs |-> [http.reqs EXCEPT ![r] = IdleRequest],
             last |-> [req |-> [req EXCEPT !.pc = "idle", !.doc = <<>>],
                       status |-> status, message |-> message,
                       error |-> error, handled |-> handled],
             issued |-> http.issued \cup signedFor,
             arrived |-> ArrivedWith(r)]

\* registrations that passed their findOne and have not saved yet
PendingSaves ==
    Cardinality({r \in Slots : /\ http.reqs[r].kind = "register"
                               /\ http.reqs[r].pc = "checked"})

\* POST /api/auth/register up to `await User.findOne({ email })`
RegisterFindOne(r) ==
    /\ http.reqs[r].kind = "idle"
    /\ http.arrived < MaxRequests
    /\ Len(users) + PendingSaves < MaxUsers
    /\ \E email \in Emails :
         LET req == Arriving("register", email, "secret1", NoToken)
         IN  IF FindByEmail(users, email) # {}
             THEN Answer(r, req, 400, "User with this email already exists", "",
                         TRUE, {})
             ELSE Await(r, [req EXCEPT !.pc = "checked"])
    /\ UNCHANGED users
    /\ UNCHANGED alertVars

\* the message of the first validator of userSchema.email that fails on the
\* email as set, "" when none does: `required`, then `match`
EmailInvalid(email) ==
    IF Len(email) = 0 THEN "Email is required"
    ELSE IF ~EmailMatches(email) THEN "Please enter a valid email address"
    ELSE ""

\* register at `await user.save()`: the document is validated and the user is
\* inserted, with lastLogin at its default; a validation error and a duplicate
\* key error go through errorHandler
RegisterSave(r) ==
    LET req == http.reqs[r]
        user == NewUser(req.email, req.password)
    IN  /\ req.kind = "register"
        /\ req.pc = "checked"
        /\ IF EmailInvalid(user.email) # ""
           THEN /\ Answer(r, req, 400, EmailInvalid(user.email), "", TRUE, {})
                /\ UNCHANGED users
           ELSE IF DuplicateKey(users, user)
           THEN /\ Answer(r, req, 400, "email already exists", "", TRUE, {})
                /\ UNCHANGED users
           ELSE /\ users' = Append(users, user)
                /\ Await(r, [req EXCEPT !.pc = "saved", !.user = Len(users) + 1])
        /\ UNCHANGED alertVars

\* register from `await user.updateLastLogin()` on: the second save writes
\* lastLogin, and the response carries the token signed for the user
RegisterFinish(r) ==
    LET req == http.reqs[r]
    IN  /\ req.kind = "register"
        /\ req.pc = "saved"
        /\ users' = [users EXCEPT ![req.user].lastLogin = clock]
        /\ Answer(r, req, 201, "User registered successfully", "", TRUE,
                  {req.user})
        /\ UNCHANGED alertVars

\* save() of a loaded document: the paths whose value differs from the loaded
\* one are written to the stored user, the others are left as they are stored
Written(us, u, doc, loaded) ==
    [us EXCEPT ![u] = [f \in DOMAIN doc |->
                           IF doc[f] # loaded[f] THEN doc[f] ELSE @[f]]]

\* POST /api/auth/login up to `await user.comparePassword(password)`: the
\* findOne with select("+password"), and on the document it loaded the tests
\* `!user` and `!user.isActive`
LoginFindOne(r) ==
    /\ http.reqs[r].kind = "idle"
    /\ http.arrived < MaxRequests
    /\ \E email \in Emails, password \in Passwords :
         LET req == Arriving("login", email, password, NoToken)
             found == FindByEmail(users, email)
             u == CHOOSE v \in found : \A w \in found : v <= w
         IN  IF found = {}
             THEN Answer(r, req, 401, "Invalid email or password", "", TRUE, {})
             ELSE IF ~users[u].isActive
             THEN Answer(r, [req EXCEPT !.user = u], 401,
                         "Account is deactivated. Please contact support.", "",
                         TRUE, {})
             ELSE Await(r, [req EXCEPT !.pc = "comparing", !.user = u,
                                       !.doc = <<users[u], users[u]>>])
    /\ UNCHANGED users
    /\ UNCHANGED alertVars

\* login when `await user.comparePassword(password)` resolves: the password of
\* the request against the one of the loaded document, and on a match
\* updateLastLogin up to its save: `this.lastLogin = new Date()`
LoginCompare(r) ==
    LET req == http.reqs[r]
        user == req.doc[1]
    IN  /\ req.kind = "login"
        /\ req.pc = "comparing"
        /\ IF req.password # user.password
           THEN Answer(r, req, 401, "Invalid email or password", "", TRUE, {})
           ELSE Await(r, [req EXCEPT !.pc = "saving",
                                     !.doc[1].lastLogin = clock])
        /\ UNCHANGED users
        /\ UNCHANGED alertVars

\* login when the save of updateLastLogin lands: lastLogin is written, and the
\* response carries the token signed for the user
LoginFinish(r) ==
    LET req == http.reqs[r]
    IN  /\ req.kind = "login"
        /\ req.pc = "saving"
        /\ users' = Written(users, req.user, req.doc[1], req.doc[2])
        /\ Answer(r, req, 200, "User logged in successfully", "", TRUE,
                  {req.user})
        /\ UNCHANGED alertVars

\* the routes behind authenticateToken that the model follows: those of the
\* auth controller, and one of the alert controller
Endpoints ==
    {"logout", "getProfile", "updateProfile", "changePassword", "refreshToken",
     "deleteAccount", "getAlerts"}

\* req.body.email of PUT /api/auth/update-profile: none, or an address
UpdateEmails == {<<>>, Bob}

\* req.body.newPassword of PUT /api/auth/change-password
NewPassword == "secret2"

\* what a request to the endpoint carries in its body besides the token
BodyEmails(endpoint) ==
    IF endpoint = "updateProfile" THEN UpdateEmails ELSE {<<>>}
BodyPasswords(endpoint) ==
    IF endpoint = "changePassword" THEN Passwords ELSE {""}

Unauthorized == "Access denied. Authentication required."

\* POST /api/auth/logout: the handler, which awaits nothing
Logout(r, req) ==
    Answer(r, req, 200, "User logged out successfully", "", TRUE, {})

\* GET /api/alerts: the handler, which awaits nothing
GetAlerts(r, req) ==
    Answer(r, req, 200, "Alerts retrieved successfully", "", TRUE, {})

\* authenticateToken, for a request to a route behind it, and after next()
\* the route's handler up to its first await
AuthenticateToken(r) ==
    /\ http.reqs[r].kind = "idle"
    /\ http.arrived < MaxRequests
    /\ \E endpoint \in Endpoints, token \in Tokens :
       \E email \in BodyEmails(endpoint), password \in BodyPasswords(endpoint) :
         LET req == Arriving(endpoint, email, password, token)
         IN  IF token.kind = "none"
             THEN Answer(r, req, 401, Unauthorized, "No token provided", FALSE, {})
             ELSE IF ~Verifies(token)
             THEN Answer(r, req, 401, Unauthorized,
                         IF token.kind = "expired" THEN "Token expired"
                         ELSE "Invalid token", FALSE, {})
             ELSE IF token.id \notin 1..Len(users)
             THEN Answer(r, req, 401, Unauthorized, "Invalid token - user not found",
                         FALSE, {})
             ELSE IF ~Admits(users[token.id])
             THEN Answer(r, req, 401, Unauthorized, "User account is deactivated",
                         FALSE, {})
             ELSE IF endpoint = "logout"
             THEN Logout(r, [req EXCEPT !.user = token.id])
             ELSE IF endpoint = "getAlerts"
             THEN GetAlerts(r, [req EXCEPT !.user = token.id])
             ELSE Await(r, [req EXCEPT !.pc = "authenticated", !.user = token.id])
    /\ UNCHANGED users
    /\ UNCHANGED alertVars

\* User.findById(id): the user as a one-element sequence, <<>> for null
FindById(us, id) == IF id \in 1..Len(us) THEN <<us[id]>> ELSE <<>>

\* `throw new ApiError(config.messages.error.userNotFound, 404)`
NotFound(r, req) == Answer(r, req, 404, "User not found", "", TRUE, {})

\* `await user.save()` of the handler of kind in slot r, for a document whose
\* changes no validator and no index refuses
SaveUser(r, kind) ==
    LET req == http.reqs[r]
    IN  /\ req.kind = kind
        /\ req.pc = "saving"
        /\ users' = Written(users, req.user, req.doc[1], req.doc[2])
        /\ Await(r, [req EXCEPT !.pc = "saved", !.doc = <<>>])
        /\ UNCHANGED alertVars

\* the handler of kind in slot r after its save: the response
Respond(r, kind, message) ==
    LET req == http.reqs[r]
    IN  /\ req.kind = kind
        /\ req.pc = "saved"
        /\ Answer(r, req, 200, message, "", TRUE, {})
        /\ UNCHANGED users
        /\ UNCHANGED alertVars

\* GET /api/auth/me: the handler, after authenticateToken
GetProfile(r) ==
    LET req == http.reqs[r]
    IN  /\ req.kind = "getProfile"
        /\ req.pc = "authenticated"
        /\ IF FindById(users, req.user) = <<>> THEN NotFound(r, req)
           ELSE Answer(r, req, 200, "Profile retrieved successfully", "", TRUE, {})
        /\ UNCHANGED users
        /\ UNCHANGED alertVars

\* PUT /api/auth/update-profile up to `await User.findById(req.user._id)` and
\* the test `email && email !== user.email`, which compares the email as sent
UpdateProfileFindById(r) ==
    LET req == http.reqs[r]
        found == FindById(users, req.user)
    IN  /\ req.kind = "updateProfile"
        /\ req.pc = "authenticated"
        /\ IF found = <<>> THEN NotFound(r, req)
           ELSE IF Len(req.email) > 0 /\ req.email # found[1].email
           THEN Await(r, [req EXCEPT !.pc = "loaded",
                                     !.doc = <<found[1], found[1]>>])
           ELSE Await(r, [req EXCEPT !.pc = "saving",
                                     !.doc = <<found[1], found[1]>>])
        /\ UNCHANGED users
        /\ UNCHANGED alertVars

\* updateProfile at `await User.findOne({ email })`, then `user.email = email`
\* through the path's setters
UpdateProfileFindOne(r) ==
    LET req == http.reqs[r]
    IN  /\ req.kind = "updateProfile"
        /\ req.pc = "loaded"
        /\ IF FindByEmail(users, req.email) # {}
           THEN Answer(r, req, 400, "Email is already in use", "", TRUE, {})
           ELSE Await(r, [req EXCEPT !.pc = "saving",
                                     !.doc[1].email = CastEmail(req.email)])
        /\ UNCHANGED users
        /\ UNCHANGED alertVars

\* updateProfile at `await user.save()`: a changed email is validated, and the
\* unique index refuses it when another user holds it; both errors go through
\* errorHandler.  The names and the location of the body are paths that the
\* model's users do not have
UpdateProfileSave(r) ==
    LET req == http.reqs[r]
        doc == req.doc[1]
        changed == doc.email # req.doc[2].email
    IN  /\ req.kind = "updateProfile"
        /\ req.pc = "saving"
        /\ IF changed /\ EmailInvalid(doc.email) # ""
           THEN /\ Answer(r, req, 400, EmailInvalid(doc.email), "", TRUE, {})
                /\ UNCHANGED users
                /\ UNCHANGED alertVars
           ELSE IF changed
                   /\ DuplicateKey([users EXCEPT ![req.user].email = <<>>], doc)
           THEN /\ Answer(r, req, 400, "email already exists", "", TRUE, {})
                /\ UNCHANGED users
                /\ UNCHANGED alertVars
           ELSE SaveUser(r, "updateProfile")

UpdateProfileRespond(r) ==
    Respond(r, "updateProfile", "Profile updated successfully")

\* PUT /api/auth/change-password up to
\* `await user.comparePassword(currentPassword)`: the findById with
\* select("+password")
ChangePasswordFindById(r) ==
    LET req == http.reqs[r]
        found == FindById(users, req.user)
    IN  /\ req.kind = "changePassword"
        /\ req.pc = "authenticated"
        /\ IF found = <<>> THEN NotFound(r, req)
           ELSE Await(r, [req EXCEPT !.pc = "comparing",
                                     !.doc = <<found[1], found[1]>>])
        /\ UNCHANGED users
        /\ UNCHANGED alertVars

\* changePassword when the comparison resolves: the current password of the
\* request against the one of the loaded document, and on a match
\* `user.password = newPassword` up to `await user.save()`
ChangePasswordCompare(r) ==
    LET req == http.reqs[r]
    IN  /\ req.kind = "changePassword"
        /\ req.pc = "comparing"
        /\ IF req.password # req.doc[1].password
           THEN Answer(r, req, 400, "Current password is incorrect", "", TRUE, {})
           ELSE Await(r, [req EXCEPT !.pc = "saving",
                                     !.doc[1].password = NewPassword])
        /\ UNCHANGED users
        /\ UNCHANGED alertVars

ChangePasswordSave(r) == SaveUser(r, "changePassword")

ChangePasswordRespond(r) ==
    Respond(r, "changePassword", "Password changed successfully")

\* DELETE /api/auth/delete-account up to `await user.save()`: findById, then
\* `user.isActive = false`
DeleteAccountFindById(r) ==
    LET req == http.reqs[r]
        found == FindById(users, req.user)
    IN  /\ req.kind = "deleteAccount"
        /\ req.pc = "authenticated"
        /\ IF found = <<>> THEN NotFound(r, req)
           ELSE Await(r, [req EXCEPT
                    !.pc = "saving",
                    !.doc = <<[found[1] EXCEPT !.isActive = FALSE], found[1]>>])
        /\ UNCHANGED users
        /\ UNCHANGED alertVars

DeleteAccountSave(r) == SaveUser(r, "deleteAccount")

DeleteAccountRespond(r) ==
    Respond(r, "deleteAccount", "Account deleted successfully")

\* POST /api/auth/refresh: the handler, after authenticateToken
RefreshToken(r) ==
    LET req == http.reqs[r]
        found == FindById(users, req.user)
    IN  /\ req.kind = "refreshToken"
        /\ req.pc = "authenticated"
        /\ IF found = <<>> THEN NotFound(r, req)
           ELSE IF ~found[1].isActive
           THEN Answer(r, req, 401, "Account is deactivated", "", TRUE, {})
           ELSE Answer(r, req, 200, "Token refreshed successfully", "", TRUE,
                       {req.user})
        /\ UNCHANGED users
        /\ UNCHANGED alertVars

\* the accounts run at one instant, with one alert that nothing touches
AuthInstants == InstantsFrom(LifeStartDays, 0, {T(8, 0, 0, 0)})

InitAuth ==
    InitWith(AuthInstants, LifeTimes, LifeSchedules, {TRUE}, LifeSnoozeTimes,
             {DefaultMaxSnoozes})

NextAuth ==
    \E r \in Slots :
        \/ RegisterFindOne(r)
        \/ RegisterSave(r)
        \/ RegisterFinish(r)
        \/ LoginFindOne(r)
        \/ LoginCompare(r)
        \/ LoginFinish(r)
        \/ AuthenticateToken(r)
        \/ GetProfile(r)
        \/ UpdateProfileFindById(r)
        \/ UpdateProfileFindOne(r)
        \/ UpdateProfileSave(r)
        \/ UpdateProfileRespond(r)
        \/ ChangePasswordFindById(r)
        \/ ChangePasswordCompare(r)
        \/ ChangePasswordSave(r)
        \/ ChangePasswordRespond(r)
        \/ RefreshToken(r)
        \/ DeleteAccountFindById(r)
        \/ DeleteAccountSave(r)
        \/ DeleteAccountRespond(r)

SpecAuth == InitAuth /\ [][NextAuth]_vars

----------------------------------------------------------------------------
(* Claims.                                                                  *)

Calculated == result.op = "calculateNextTrigger"

\* C1: for every valid schedule (any time of day, any frequency) and every
\* now, the next trigger calculateNextTrigger computes is strictly after now
\* (the instant of its first clock read), never equal to it.
C1_NextTriggerStrictlyAfterNow ==
    Calculated => Before(result.now, alert.nextTrigger)

\* C1 witness: calculateNextTrigger ran with now exactly at the alert's time of
\* day, the case in which "at or after" and "strictly after" differ.
C1_Witness ==
    /\ Calculated
    /\ alert.time = T0800
    /\ alert.frequency = "weekly"
    /\ result.now.ms = T(8, 0, 0, 0)
    /\ alert.nextTrigger = Instant(result.now.day + 1, T(8, 0, 0, 0))

\* the calendar date (year, month 0..11, day of month) of an instant
CalendarDate(t) == <<YearFromTime(t), MonthFromTime(t), DateFromTime(t)>>

DaysInMonth(y, m) ==
    IF m = 1 THEN (IF IsLeapYear(y) THEN 29 ELSE 28)
    ELSE IF m \in {3, 5, 8, 10} THEN 30 ELSE 31

\* the calendar date that follows calendar date c
NextCalendarDate(c) ==
    IF c[3] < DaysInMonth(c[1], c[2]) THEN <<c[1], c[2], c[3] + 1>>
    ELSE IF c[2] < 11 THEN <<c[1], c[2] + 1, 1>>
    ELSE <<c[1] + 1, 0, 1>>

\* the time within the day that setHours(hours, minutes, 0, 0) sets for the
\* hours and minutes of a time: MakeTime(hours, minutes, 0, 0) in ms, a
\* Number, NaN when one of them is not finite
TimeOfDayOfParts(t) ==
    MakeTimeNumber(t.hours, t.minutes, NumberOf(0), NumberOf(0))

\* TimeOfDayOfParts, worked out once for each time string of the model
TimesOfDay == [time \in ModelTimes |-> TimeOfDayOfParts(ParsedTimes[time])]
TimeOfDayMs(time) ==
    IF time \in ModelTimes THEN TimesOfDay[time]
    ELSE TimeOfDayOfParts(ParseTime(time))

\* the instant t is at the time of day of the time
AtTimeOfDay(t, time) == NumberOf(t.ms) = TimeOfDayMs(time)

\* now's calendar date at the alert's time of day: the instant that many ms
\* after the start of now's day
TodayAtTime(a, now) ==
    TimeClip(MakeDateNumber(NumberOf(now.day), TimeOfDayMs(a.time)))

\* C2: for a daily alert the next trigger is now's calendar date at the alert's
\* time of day when that instant is strictly after now, and otherwise exactly
\* one calendar day later at the same time of day, also across the end of a
\* month, of February in a leap year, and of the year.
C2_DailyTodayOrNextCalendarDay ==
    (Calculated /\ alert.frequency = "daily") =>
        LET now == result.now
            today == TodayAtTime(alert, now)
            next == alert.nextTrigger
        IN  /\ AtTimeOfDay(next, alert.time)
            /\ IF Before(now, today)
               THEN next = today
               ELSE /\ next.day = now.day + 1
                    /\ CalendarDate(next) = NextCalendarDate(CalendarDate(now))

Snoozed == result.op = "snooze"
Fired == result.op = "markTriggered"
Updated == result.op = "updateAlert"

\* C3: from a freshly armed alert (currentSnoozes = 0) exactly maxSnoozes
\* consecutive snooze calls succeed: no run of successful snoozes is longer
\* than maxSnoozes, a snooze call (made with no earlier snooze still being
\* saved) fails only when maxSnoozes calls have succeeded and then with the
\* snooze-limit error, and an active alert that has been snoozed maxSnoozes
\* times is overdue.
C3_ExactlyMaxSnoozesSucceed ==
    /\ streak <= alert.maxSnoozes
    /\ (Snoozed /\ ~result.ok /\ flight.op # "snooze") =>
           /\ streak = alert.maxSnoozes
           /\ result.error = "Maximum snoozes reached"
    /\ (Snoozed /\ result.ok) => streak >= 1
    /\ (alert.isActive /\ streak = alert.maxSnoozes) => Status(alert) = "overdue"

\* C4: in every reachable state, of the document and of the stored record,
\* 0 <= currentSnoozes <= maxSnoozes.
C4_SnoozeCountWithinLimit ==
    /\ 0 <= alert.currentSnoozes /\ alert.currentSnoozes <= alert.maxSnoozes
    /\ 0 <= stored.currentSnoozes /\ stored.currentSnoozes <= stored.maxSnoozes

\* C4 witness: the write of the third snooze of three has landed: the counter
\* is at its limit in the document and in the stored record.
C4_Witness ==
    /\ result.op = "save"
    /\ result.settles = "snooze"
    /\ result.ok
    /\ alert.maxSnoozes = 3
    /\ alert.currentSnoozes = 3
    /\ stored.currentSnoozes = 3
    /\ stored.maxSnoozes = 3

\* what C5 says of a markTriggered on an active alert, but for the state it
\* leaves: the counter is reset, lastTriggered is the call's instant, and
\* nextTrigger is newly computed: at the alert's time of day, after
\* lastTriggered, and no more than a day after the call's last clock read;
\* the save the call itself leaves in flight carries these fields
FiredFieldsRecomputed ==
    /\ alert.currentSnoozes = 0
    /\ alert.lastTriggered = result.now
    /\ AtTimeOfDay(alert.nextTrigger, alert.time)
    /\ Before(alert.lastTriggered, alert.nextTrigger)
    /\ AtOrBefore(alert.nextTrigger, Instant(clock.day + 1, clock.ms))
    /\ (flight.pc = "saving" /\ flight.op = "markTriggered") =>
           flight.doc = <<alert>>

\* C5 as stated: markTriggered on an Armed or Overdue alert resets
\* currentSnoozes, sets lastTriggered to now, recomputes nextTrigger and leaves
\* the alert Armed.
C5_Original_FireAlwaysLeavesArmed ==
    (Fired /\ pre.isActive) =>
        (FiredFieldsRecomputed /\ Status(alert) = "active")

\* C5 as amended: markTriggered on an Armed or Overdue alert resets
\* currentSnoozes, sets lastTriggered to now and recomputes nextTrigger; it
\* leaves the alert Armed when maxSnoozes > 0, and with maxSnoozes = 0 the
\* derived status is 'overdue'.
C5_FireResetsAndRearms ==
    (Fired /\ pre.isActive) =>
        /\ FiredFieldsRecomputed
        /\ Status(alert) = IF alert.maxSnoozes > 0 THEN "active" ELSE "overdue"

\* C5 witness: markTriggered on an Overdue alert (three snoozes of three used)
\* has left it Armed with the counter at 0.
C5_Witness ==
    /\ Fired
    /\ pre.isActive
    /\ pre.maxSnoozes = 3
    /\ pre.currentSnoozes = 3
    /\ alert.currentSnoozes = 0
    /\ Status(alert) = "active"

\* now plus the given number of minutes
PlusMinutes(t, minutes) ==
    LET total == t.ms + minutes * MsPerMinute
    IN  IF total >= MsPerDay THEN Instant(t.day + 1, total - MsPerDay)
        ELSE Instant(t.day, total)

\* C6: a successful snooze increments currentSnoozes by exactly 1, sets
\* nextTrigger to the call's now plus the alert's snooze minutes, and leaves the
\* alert Overdue when the new count equals maxSnoozes and Armed otherwise.
C6_SnoozeIncrementsAndDefers ==
    (Snoozed /\ result.ok) =>
        /\ alert.currentSnoozes = pre.currentSnoozes + 1
        /\ alert.nextTrigger = PlusMinutes(result.now, alert.snoozeTime)
        /\ Status(alert) = IF alert.currentSnoozes = alert.maxSnoozes
                           THEN "overdue" ELSE "active"

\* C7: the derived status is 'inactive' whenever isActive is false, whatever
\* the counters; otherwise 'overdue' exactly when currentSnoozes >= maxSnoozes;
\* otherwise 'active'.
C7_DerivedStatus ==
    /\ ~alert.isActive => Status(alert) = "inactive"
    /\ alert.isActive =>
           /\ Status(alert) = "overdue" <=> alert.currentSnoozes >= alert.maxSnoozes
           /\ Status(alert) = "active" <=> alert.currentSnoozes < alert.maxSnoozes

\* C7 witness: an inactive alert whose snoozes are used up after a snooze.
C7_Witness ==
    /\ Snoozed
    /\ ~alert.isActive
    /\ alert.currentSnoozes = alert.maxSnoozes
    /\ alert.currentSnoozes > 0

Reactivated == Updated /\ result.body.isActive = <<TRUE>>

\* C8: deactivate followed by reactivate leaves the alert Armed with isActive
\* true, currentSnoozes = 0 and a nextTrigger computed from the reactivation's
\* now, also when the alert was Overdue before.  (Armed is read as status
\* 'active' for an alert that can be snoozed at all, maxSnoozes > 0.)
C8_DeactivateReactivateRearms ==
    (Reactivated /\ result.afterDeactivate) =>
        /\ stored.isActive
        /\ stored.currentSnoozes = 0
        /\ stored.maxSnoozes > 0 => Status(stored) = "active"
        /\ AtTimeOfDay(stored.nextTrigger, stored.time)
        /\ Before(result.now, stored.nextTrigger)

\* C9: in every reachable state an alert with isActive false has no
\* nextTrigger.
C9_InactiveHasNoNextTrigger ==
    /\ ~alert.isActive => alert.nextTrigger = Null
    /\ ~stored.isActive => stored.nextTrigger = Null

\* C10: snooze or markTriggered on an Inactive alert, and reactivate on an
\* Armed or Overdue alert, fail with an invalid-state-transition error and
\* leave every field of the alert unchanged.
C10_InvalidTransitionRejected ==
    (\/ (Snoozed \/ Fired) /\ ~pre.isActive
     \/ Reactivated /\ pre.isActive) =>
        /\ ~result.ok
        /\ result.error = "InvalidStateTransitionError"
        /\ result.saves = 0
        /\ alert = pre

\* C11: when snooze is rejected because currentSnoozes >= maxSnoozes, the
\* alert's currentSnoozes, nextTrigger and lastTriggered are as before the call,
\* in the document, in the stored record and in a save that is in flight, and
\* no save is issued.
C11_RejectedSnoozeChangesNothing ==
    [][(result'.op = "snooze" /\ result'.error = "Maximum snoozes reached") =>
           /\ alert.currentSnoozes >= alert.maxSnoozes
           /\ alert'.currentSnoozes = alert.currentSnoozes
           /\ alert'.nextTrigger = alert.nextTrigger
           /\ alert'.lastTriggered = alert.lastTriggered
           /\ stored' = stored
           /\ flight' = flight
           /\ result'.saves = 0]_vars

\* C11 witness: a snooze was rejected on an alert that had used its three
\* snoozes and has a nextTrigger set by the last of them.
C11_Witness ==
    /\ Snoozed
    /\ result.error = "Maximum snoozes reached"
    /\ pre.maxSnoozes = 3
    /\ pre.currentSnoozes = 3
    /\ pre.nextTrigger # Null
    /\ alert = pre
    /\ stored = pre

\* the two transitions run one after the other on a document d, each with the
\* clock reads it had
FireOn(d) ==
    MarkTriggeredDoc(d, txn.fire.reads[1], txn.fire.reads[2], txn.fire.reads[3])

SnoozeOn(d) ==
    IF SnoozeLimitReached(d) THEN d ELSE SnoozeDoc(d, txn.snooze.reads[1])

BothDone == txn.fire.pc = "done" /\ txn.snooze.pc = "done"

\* C12: two concurrent transitions on the same alert never interleave: once
\* both handlers are done, the stored alert equals the result of running the
\* fire and the snooze one after the other, in one order or the other, on the
\* record as it was before either began.
C12_ConcurrentTransitionsSerial ==
    BothDone =>
        stored \in {SnoozeOn(FireOn(txn.fire.base)), FireOn(SnoozeOn(txn.fire.base))}

TimePassed(a, now) == AtOrBefore(TodayAtTime(a, now), now)

\* C13: for a weekly alert the next trigger is now's calendar date at the time
\* of day when that instant is after now, and exactly 7 days after that
\* instant when it is at or before now.
C13_WeeklySevenDaysLater ==
    (Calculated /\ pre.frequency = "weekly") =>
        alert.nextTrigger =
            IF TimePassed(pre, result.now)
            THEN [TodayAtTime(pre, result.now) EXCEPT !.day = @ + 7]
            ELSE TodayAtTime(pre, result.now)

\* the same day of the month in the month after calendar date c, clamped to
\* that month's last day
SameDayNextMonth(c) ==
    LET y == IF c[2] = 11 THEN c[1] + 1 ELSE c[1]
        m == IF c[2] = 11 THEN 0 ELSE c[2] + 1
        d == IF c[3] > DaysInMonth(y, m) THEN DaysInMonth(y, m) ELSE c[3]
    IN  <<y, m, d>>

\* C14: for a monthly alert whose time has passed, the next trigger is at the
\* time of day on the same day of the month in the next calendar month, clamped
\* to that month's last day.
C14_MonthlySameDayNextMonth ==
    (Calculated /\ pre.frequency = "monthly" /\ TimePassed(pre, result.now)) =>
        /\ CalendarDate(alert.nextTrigger) = SameDayNextMonth(CalendarDate(result.now))
        /\ AtTimeOfDay(alert.nextTrigger, pre.time)

\* the weekday of a day number (day 0, 1 January 1970, was a Thursday)
WeekdayNames ==
    <<"sunday", "monday", "tuesday", "wednesday", "thursday", "friday", "saturday">>

WeekdayOf(day) == WeekdayNames[((day + 4) % 7) + 1]

\* the instants at the alert's time of day, on a weekday of daysOfWeek, after
\* now and within the week that follows
CustomCandidates(a, now) ==
    {t \in {TodayAtTime(a, Instant(now.day + k, 0)) : k \in 0..7} :
        Before(now, t) /\ WeekdayOf(t.day) \in a.daysOfWeek}

\* C15: for a custom alert with a non-empty daysOfWeek the next trigger is the
\* earliest instant strictly after now that is at the time of day on a weekday
\* in daysOfWeek, today included, wrapping to the next week.
C15_CustomEarliestListedWeekday ==
    (Calculated /\ pre.frequency = "custom" /\ pre.daysOfWeek # {}) =>
        /\ alert.nextTrigger \in CustomCandidates(pre, result.now)
        /\ \A t \in CustomCandidates(pre, result.now) :
               AtOrBefore(alert.nextTrigger, t)

Constructed == result.op = "new"
Created == result.op = "createAlert"

\* C16: a custom-frequency schedule with an empty daysOfWeek is always
\* rejected: the create request fails with a validation error, no alert with
\* such a schedule is ever persisted, and computing its next trigger fails with
\* an invalid-schedule error and sets no nextTrigger.
C16_CustomWithoutDaysRejected ==
    /\ (/\ Created
        /\ result.body.frequency = "custom"
        /\ result.body.daysOfWeek = <<{}>>) => response.status = 400
    /\ ~(stored.frequency = "custom" /\ stored.daysOfWeek = {})
    /\ (Calculated /\ pre.frequency = "custom" /\ pre.daysOfWeek = {}) =>
           /\ ~result.ok
           /\ alert.nextTrigger = pre.nextTrigger

\* C18: every alert returned by create has isActive = true, currentSnoozes = 0
\* and a nextTrigger equal to the next-trigger computation on its schedule with
\* the creation instant as now: strictly after the creation instant and on the
\* alert's time of day.
C18_CreatedAlertHasComputedTrigger ==
    Created =>
        /\ response.status = 201
        /\ response.alert.isActive
        /\ response.alert.currentSnoozes = 0
        /\ response.alert.nextTrigger =
               NextTriggerValue(response.alert, result.now, result.now)
        /\ Before(result.now, response.alert.nextTrigger)
        /\ AtTimeOfDay(response.alert.nextTrigger, response.alert.time)

\* C19 as stated: every newly created alert, maxSnoozes = 0 included, is Armed:
\* isActive, currentSnoozes < maxSnoozes, status 'active'.
C19_Original_CreatedAlwaysArmed ==
    /\ Constructed =>
           /\ alert.isActive
           /\ alert.currentSnoozes < alert.maxSnoozes
           /\ Status(alert) = "active"
    /\ Created =>
           /\ response.alert.isActive
           /\ response.alert.currentSnoozes < response.alert.maxSnoozes
           /\ Status(response.alert) = "active"

\* C19: a newly created alert is active with currentSnoozes = 0; it is Armed
\* (currentSnoozes < maxSnoozes, status 'active') when maxSnoozes > 0 and has
\* the status 'overdue' when maxSnoozes = 0.  The alert the create handler
\* returns always has maxSnoozes 3 and is Armed.
C19_CreatedArmedUnlessNoSnoozes ==
    /\ Constructed =>
           /\ alert.isActive
           /\ alert.currentSnoozes = 0
           /\ Status(alert) = IF alert.maxSnoozes > 0 THEN "active" ELSE "overdue"
    /\ Created =>
           /\ response.alert.isActive
           /\ response.alert.currentSnoozes = 0
           /\ response.alert.currentSnoozes < response.alert.maxSnoozes
           /\ Status(response.alert) = "active"

\* C19 witness: an alert constructed with maxSnoozes = 0 is 'overdue', and a
\* create request asking for maxSnoozes = 0 is answered with an Armed alert.
C19_Witness ==
    /\ Created
    /\ result.body.maxSnoozes = <<0>>
    /\ Status(response.alert) = "active"
    /\ alert.maxSnoozes = 0
    /\ alert.currentSnoozes = 0
    /\ alert.nextTrigger = Null
    /\ Status(alert) = "overdue"

\* the next trigger of schedule a as a function of now alone: what the
\* computation gives when its second clock read returns now again
NextTriggerAt(a, now) ==
    LET today == TodayAtTime(a, now)
    IN  IF AtOrBefore(today, now) THEN [today EXCEPT !.day = @ + 1] ELSE today

\* C17: the computed instant is a function of the schedule and of now alone:
\* no clock is read besides the now the computation compares against, so two
\* computations with the same schedule and the same now give the same instant.
C17_FunctionOfNowAlone ==
    Calculated => alert.nextTrigger = NextTriggerAt(pre, result.now)

\* the third of three consecutive successful snoozes of an active alert with
\* maxSnoozes = 3 and a snooze time of 15 minutes has just returned
ThirdSnoozeOfThree ==
    /\ Snoozed
    /\ result.ok
    /\ streak = 3
    /\ alert.isActive
    /\ alert.maxSnoozes = DefaultMaxSnoozes
    /\ alert.snoozeTime = DefaultSnoozeTime

\* C20 as stated: after the three snoozes currentSnoozes = 3, the alert is
\* Overdue and nextTrigger is 45 minutes after the now of the first call.
C20_Original_ThreeSnoozesAccumulate ==
    ThirdSnoozeOfThree =>
        /\ alert.currentSnoozes = 3
        /\ Status(alert) = "overdue"
        /\ alert.nextTrigger = PlusMinutes(streakStart, 3 * alert.snoozeTime)

\* C20: after the three snoozes currentSnoozes = 3, the alert is Overdue and
\* nextTrigger is 15 minutes after the now of the third call, whenever the
\* first two calls were made.
C20_ThreeSnoozesDeferFromLastCall ==
    ThirdSnoozeOfThree =>
        /\ alert.currentSnoozes = 3
        /\ Status(alert) = "overdue"
        /\ alert.nextTrigger = PlusMinutes(result.now, alert.snoozeTime)

\* C20 witness: the third snooze came later than the first, and nextTrigger is
\* 15 minutes after the third.
C20_Witness ==
    /\ ThirdSnoozeOfThree
    /\ Before(streakStart, result.now)
    /\ pre.currentSnoozes = 2
    /\ alert.currentSnoozes = 3
    /\ alert.nextTrigger = PlusMinutes(result.now, 15)
    /\ alert.nextTrigger # PlusMinutes(streakStart, 45)

\* a two-digit hour in 00..23, a colon, a two-digit minute in 00..59
WellFormedTime(time) ==
    /\ Len(time) = 5
    /\ time[3] = 58
    /\ \A i \in {1, 2, 4, 5} : IsDigit(time[i])
    /\ 10 * DigitValue(time[1]) + DigitValue(time[2]) <= 23
    /\ 10 * DigitValue(time[4]) + DigitValue(time[5]) <= 59

\* C21: an alert is created only with a well-formed HH:MM time: no stored alert
\* has any other time value (a single-digit hour such as '8:00', or '24:00'),
\* and a create request carrying one is answered with a validation error.
C21_OnlyWellFormedTimeAccepted ==
    /\ WellFormedTime(stored.time)
    /\ (/\ Created
        /\ result.body.time # <<>>
        /\ ~WellFormedTime(result.body.time)) => response.status = 400

\* C22: the lifecycle has no terminal state; in particular Inactive is not
\* one: an Inactive alert (with maxSnoozes > 0, so that it can be Armed) is
\* Armed again later, given that reactivation requests keep being made and
\* for as long as the process runs.
C22_InactiveLeadsBackToArmed ==
    (~alert.isActive /\ alert.maxSnoozes > 0) ~>
        (Status(alert) = "active" \/ ~Running)

\* the last operation was an update carrying a new time of day
ScheduleUpdated == Updated /\ result.body.time # <<>>

\* C23: updateSchedule never changes currentSnoozes; on an active alert it
\* takes the new schedule and recomputes nextTrigger from now (after now, on
\* the new time of day); on an inactive alert it leaves nextTrigger unset and
\* the alert Inactive.
C23_UpdateScheduleRecomputesTrigger ==
    ScheduleUpdated =>
        /\ alert.currentSnoozes = pre.currentSnoozes
        /\ pre.isActive =>
               /\ alert.time = result.body.time
               /\ Before(result.now, alert.nextTrigger)
               /\ AtTimeOfDay(alert.nextTrigger, result.body.time)
        /\ ~pre.isActive =>
               /\ alert.nextTrigger = Null
               /\ Status(alert) = "inactive"

\* C24: every failure inside a transition is returned to the caller of the
\* transition: no rejection is left that nobody receives, and a failed write
\* of the store is the error of the fire or the snooze that issued it.
C24_EveryFailureReturned ==
    /\ result.dropped = <<>>
    /\ result.error = "StoreError" =>
           result.settles \in {"markTriggered", "snooze"}

Last == http.last

\* the email of the last request belonged to a user when the request arrived
TakenAtArrival == Last.req.taken

\* the step sends a response: a slot is freed or stays free, and the state
\* after the step holds the request and its response as the last one
Responds ==
    /\ http' # http
    /\ \A r \in Slots : http'.reqs[r] \in {http.reqs[r], IdleRequest}

\* a step that adds a user adds the user of a registration in flight, under
\* the email of that registration
RegisterInserts ==
    Len(users') > Len(users) =>
        \E r \in Slots :
            /\ http'.reqs[r].kind = "register"
            /\ http'.reqs[r].user = Len(users')
            /\ users'[Len(users')].email = CastEmail(http'.reqs[r].email)

\* the response to a registration whose email belonged to nobody when it
\* arrived: 201 for the user it added, or somebody else took the email in
\* between and the request fails with 400
RegisterOutcome ==
    (http'.last.req.kind = "register" /\ ~http'.last.req.taken /\ Responds) =>
        \/ /\ http'.last.status = 201
           /\ http'.last.req.user \in 1..Len(users')
        \/ /\ http'.last.status = 400
           /\ http'.last.message = "email already exists"
           /\ \E u \in 1..Len(users') :
                  users'[u].email = CastEmail(http'.last.req.email)

\* C25: registering with an email that belongs to an existing user fails with
\* status 400 and 'User with this email already exists'; whatever the order and
\* interleaving of register requests, no two users have the same email, and a
\* register request that loses the race for an email fails with status 400.
C25_OneAccountPerEmail ==
    /\ [](/\ \A u, v \in 1..Len(users) :
                 u < v => CastEmail(users[u].email) # CastEmail(users[v].email)
          /\ (Last.req.kind = "register" /\ TakenAtArrival) =>
                 /\ Last.status = 400
                 /\ Last.message = "User with this email already exists")
    /\ [][RegisterInserts /\ RegisterOutcome]_vars

\* C25 witness: two registrations for amy@x.io, one written ' Amy@x.io', both
\* passed the lookup; one created the account and the other was answered 400.
C25_Witness ==
    /\ Last.req.kind = "register"
    /\ Last.req.email = AmyCapital
    /\ ~TakenAtArrival
    /\ Last.status = 400
    /\ Cardinality({u \in 1..Len(users) : users[u].email = Amy}) = 1

\* the last request went to a route behind authenticateToken
Protected == Last.req.kind \in Endpoints

\* C26: a request to a protected route reaches the route's handler only with a
\* token that verifies and names an existing user who was active when the token
\* was checked; a request with no token or with one that does not verify is
\* answered 401 without the handler being invoked.
C26_HandlerOnlyBehindValidToken ==
    /\ \A r \in Slots :
           (http.reqs[r].kind \in Endpoints) =>
               /\ http.reqs[r].token.kind = "signed"
               /\ http.reqs[r].token.id \in 1..Len(users)
               /\ http.reqs[r].token.id \notin http.reqs[r].after
    /\ (Protected /\ Last.handled) =>
           /\ Last.req.token.kind = "signed"
           /\ Last.req.token.id \in 1..Len(users)
           /\ Last.req.token.id \notin Last.req.after
    /\ (Protected /\ Last.req.token.kind # "signed") =>
           /\ Last.status = 401
           /\ ~Last.handled

\* C26 witness: a request with the second user's token was served by its
\* handler, at a time when the first user's account is deactivated.
C26_Witness ==
    /\ Protected
    /\ Last.req.kind = "getAlerts"
    /\ Last.handled
    /\ Last.status = 200
    /\ Last.req.token = [kind |-> "signed", id |-> 2]
    /\ users[1].isActive = FALSE

\* the user the last login request named, when there is one: the user its
\* lookup by email found
LoginUser == {Last.req.user} \cap (1..Len(users))

\* a deactivated account stays deactivated
NeverReactivated ==
    \A u \in 1..Len(users) : ~users[u].isActive => ~users'[u].isActive

\* C29: once deleteAccount has completed for a user, every request that
\* arrives later with a token of that user is answered 401 by
\* authenticateToken, the handler (token refresh included) not being invoked,
\* every later login of that user is answered 401, and no step sets the user's
\* isActive back to true.
C29_DeletedAccountStaysOut ==
    /\ [](/\ (Protected /\ Last.req.token.id \in Last.req.after) =>
                 (Last.status = 401 /\ ~Last.handled)
          /\ (Last.req.kind = "login" /\ LoginUser \cap Last.req.after # {}) =>
                 Last.status = 401)
    /\ [][NeverReactivated]_vars

\* C29 witness: after the first user's account was deleted, a refresh with the
\* token issued to that user was answered 401.
C29_Witness ==
    /\ Last.req.kind = "refreshToken"
    /\ Last.req.token = [kind |-> "signed", id |-> 1]
    /\ 1 \in Last.req.after
    /\ Last.status = 401
    /\ Last.error = "User account is deactivated"

\* C27: every lifecycle transition that commits does so through exactly one
\* save of the alert; a fire issues a single save and never has a second save
\* of the same document in flight with the first.
C27_OneSavePerTransition ==
    (Fired \/ (Snoozed /\ result.ok)) => result.saves = 1

\* C28: trigger monotonicity: a fire or a successful snooze of an active alert
\* that has a nextTrigger leaves a nextTrigger at or after the one it replaces
\* (the clock never runs backwards, so the transitions of a behaviour are at
\* non-decreasing instants).
C28_TriggerNeverMovesBackwards ==
    ((Fired \/ (Snoozed /\ result.ok)) /\ pre.isActive /\ pre.nextTrigger # Null) =>
        AtOrBefore(pre.nextTrigger, alert.nextTrigger)

----------------------------------------------------------------------------
(* POST /api/alerts/:id/snooze.                                             *)

\* req.params.id: the alert of the model, and an id no alert has
SnoozeIds == {AlertId, "alert_404"}

\* req.body.snoozeTime: not sent, 0, and numbers of minutes within the day and
\* beyond two days
SnoozeTimesSent == {<<>>, <<0>>, <<5>>, <<3000>>}

\* new Date(Date.now() + minutes * 60 * 1000) for an integer number of
\* minutes: the whole days of minutes are carried into the day, and a time
\* value beyond the range of Date gives an Invalid Date, which res.json
\* writes as null
DateAfterMinutes(now, minutes) ==
    TimeClipInstant(
        MakeDate(now.day + (minutes \div MinutesPerDay),
                 now.ms + (minutes % MinutesPerDay) * MsPerMinute))

\* mutant: the counters of the stored alert are reported
SnoozeAlertResponse_FromDocument(id, snoozeTime, now) ==
    [status |-> 200,
     success |-> TRUE,
     message |-> "Alert snoozed successfully",
     alertId |-> id,
     snoozedUntil |-> DateAfterMinutes(now, stored.snoozeTime),
     currentSnoozes |-> stored.currentSnoozes + 1,
     maxSnoozes |-> stored.maxSnoozes]

\* res.json of snoozeAlert, for a snoozeTime that is not sent (<<>>) or an
\* integer; `snoozeTime || 15` is 15 for a missing and for a zero snoozeTime
SnoozeAlertResponse(id, snoozeTime, now) ==
    [status |-> 200,
     success |-> TRUE,
     message |-> "Alert snoozed successfully",
     alertId |-> id,
     snoozedUntil |->
        DateAfterMinutes(now, IF snoozeTime = <<>> \/ snoozeTime = <<0>> THEN 15
                              ELSE snoozeTime[1]),
     currentSnoozes |-> 1,
     maxSnoozes |-> 3]

\* alertController.snoozeAlert, after authenticateToken: answers from the
\* request and the clock alone, loads and stores no alert
SnoozeAlert ==
    \E id \in SnoozeIds, snoozeTime \in SnoozeTimesSent :
        /\ Serving
        /\ response' = SnoozeAlertResponse(id, snoozeTime, clock)
        /\ result' = [Outcome("snoozeAlert", TRUE, "", clock, 0, NoBody)
                          EXCEPT !.repeated = result.op = "snoozeAlert"]
        /\ pre' = alert
        /\ UNCHANGED <<clock, alert, stored, streak, streakStart, txn, flight, users, http>>

\* The HTTP snooze next to the model's snooze, on alerts with a limit of 0, 1
\* and 3 snoozes.
InitSnoozeAlert ==
    InitWith(LifeInstants, LifeTimes, LifeSchedules, {TRUE}, LifeSnoozeTimes,
             LiveMaxSnoozes)

NextSnoozeAlert ==
    \/ Tick(LifeInstants)
    \/ Snooze
    \/ SaveLands
    \/ SnoozeAlert

SpecSnoozeAlert == InitSnoozeAlert /\ [][NextSnoozeAlert]_vars

\* the last step was a POST /api/alerts/:id/snooze
SnoozeRequested == result.op = "snoozeAlert"

\* C30: the HTTP snooze is stateless: for every id and every number of
\* repeated calls it answers with success, currentSnoozes 1 and maxSnoozes 3,
\* whatever the stored alert's counters are, and it issues no save and leaves
\* the document, the stored record and a save in flight as they were.
C30_HttpSnoozeStateless ==
    /\ [](SnoozeRequested =>
             /\ response.status = 200
             /\ response.success
             /\ response.currentSnoozes = 1
             /\ response.maxSnoozes = 3
             /\ result.saves = 0)
    /\ [][result'.op = "snoozeAlert" =>
             /\ alert' = alert
             /\ stored' = stored
             /\ flight' = flight]_vars

\* C30 witness: a repeated HTTP snooze, for the id of an alert whose snoozes
\* are used up, answered with success and currentSnoozes 1.
C30_Witness ==
    /\ SnoozeRequested
    /\ result.repeated
    /\ response.alertId = AlertId
    /\ stored.maxSnoozes > 0
    /\ SnoozeLimitReached(stored)
    /\ response.success
    /\ response.currentSnoozes = 1

====
